---- MODULE Spec2Model ----
(***************************************************************************)
(* Tournament state reconciliation engine of boylstonchessclub-tdbot       *)
(* (package bcc): the dual-source GetTournament orchestrator and the       *)
(* round-1 pairing predictor.                                              *)
(*                                                                         *)
(* Conventions                                                             *)
(*  - A Go string that the code inspects (section names, rating strings)   *)
(*    is a sequence of one-character strings, so that HasPrefix, Index,    *)
(*    Atoi and the byte-wise "<" are computed, not assumed.                *)
(*  - A bye-request string is the sequence of its lexemes (words, numbers, *)
(*    separators), the units the regular expressions of                    *)
(*    round1ByeRequested work on.                                          *)
(*  - A float64 score is an integer number of half points (0.5 is 1).      *)
(*  - A Go pointer is a sequence: <<>> is nil, <<v>> points to v.          *)
(***************************************************************************)
EXTENDS Integers, Sequences, FiniteSets, TLC

VARIABLES
    \* ---- round-1 predictor (predictRound1Pairings) ----
    entries,        \* the []Entry argument
    ran,            \* TRUE once predictRound1Pairings has returned for entries
    sectionNames,   \* buildSections: sectionNames after sort.Sort
    pairings,       \* predictRound1Pairings: the returned []Pairing
    \* ---- GetTournament(eventId) ----
    world,          \* what the two servers answer for eventId
    pc,             \* where GetTournament and its goroutines are
    wg,             \* GetTournament: the WaitGroup counter
    tViaApi,        \* GetTournament: *Tournament of the API leg
    apiErr,         \* GetTournament: error of the API leg
    tViaWeb,        \* GetTournament: *Tournament of the website leg
    webErr,         \* GetTournament: error of the website leg
    webWg,          \* getTournamentViaWeb: the WaitGroup counter
    entriesRes,     \* getTournamentViaWeb: entriesDoc, errEntries
    pairingsRes,    \* getTournamentViaWeb: pairingsDoc, errPairings
    ret,            \* what GetTournament returned
    \* ---- the views of the returned tournament ----
    pairingsOut,    \* BuildPairingsOutput: the section tables written, in order
    standingsOut,   \* BuildStandingsOutput: the section tables written, in order
    \* ---- uschess: a call that fans out on an errgroup ----
    gKind,          \* which call: GetRatingEstimate, FetchPlayer, fetchRecentPlayerCrossTables
    gWorld,         \* what the ratings API answers to each worker's fetch
    gPc,            \* the caller: "idle", "launch" (in its g.Go loop), "done"
    gWorker,        \* per worker: "idle", "running" (fetch in flight), "done";
                    \* in between, where the steps of the store are told
                    \* apart: "fetched", "locked", "written"
    mu,             \* sync.Mutex: 0 unlocked, else the worker that holds it
    gErr,           \* errgroup.Group: err, set once
    gCtxDone,       \* the group's derived context is cancelled
    gCallerDone,    \* the caller's context is cancelled
    gCancelInFlight,\* history: the caller cancelled while a fetch was in flight
    gFailOrder,     \* history: the workers that failed, in the order they failed
    gResults,       \* the variables the workers write their results to
    gRet,           \* what the call returned
    \* ---- uschess: the rating estimator ----
    estArgs,        \* getRatingEstimate: myOldRating, priorGames, score, opponentRatings
    estStd,         \* its estimate with dualRatedOTBR false
    estDual,        \* its estimate with dualRatedOTBR true
    kCall           \* a call of KFactor: its arguments and its value

predVars == <<entries, ran, sectionNames, pairings>>
getVars == <<world, pc, wg, tViaApi, apiErr, tViaWeb, webErr, webWg,
             entriesRes, pairingsRes, ret>>
outVars == <<pairingsOut, standingsOut>>
groupVars == <<mu, gKind, gWorld, gPc, gWorker, gErr, gCtxDone, gCallerDone,
               gCancelInFlight, gFailOrder, gResults, gRet>>
estVars == <<estArgs, estStd, estDual, kCall>>

\* ------------------------------------------------------------------ bounds
MaxEntries == 6
MaxByes == 1
MaxOpponents == 2
MaxEvents == 2
MaxGames == 4

\* ------------------------------------------------------- strings (strconv)
Digits == {"0", "1", "2", "3", "4", "5", "6", "7", "8", "9"}

DigitVal(c) ==
    CASE c = "0" -> 0 [] c = "1" -> 1 [] c = "2" -> 2 [] c = "3" -> 3
      [] c = "4" -> 4 [] c = "5" -> 5 [] c = "6" -> 6 [] c = "7" -> 7
      [] c = "8" -> 8 [] c = "9" -> 9

\* Byte value of the characters that occur in the model's strings.
CharOrd(c) ==
    CASE c = " " -> 32 [] c = "/" -> 47
      [] c \in Digits -> 48 + DigitVal(c)
      [] c = "C" -> 67 [] c = "O" -> 79 [] c = "R" -> 82 [] c = "U" -> 85
      [] c = "a" -> 97 [] c = "c" -> 99 [] c = "e" -> 101 [] c = "h" -> 104
      [] c = "i" -> 105 [] c = "m" -> 109 [] c = "n" -> 110 [] c = "o" -> 111
      [] c = "p" -> 112 [] c = "r" -> 114 [] c = "s" -> 115 [] c = "v" -> 118

\* Go's string comparison a < b: byte-wise lexicographic.
RECURSIVE StrLess(_, _)
StrLess(a, b) ==
    IF b = <<>> THEN FALSE
    ELSE IF a = <<>> THEN TRUE
    ELSE IF CharOrd(Head(a)) # CharOrd(Head(b))
         THEN CharOrd(Head(a)) < CharOrd(Head(b))
    ELSE StrLess(Tail(a), Tail(b))

\* strings.TrimSpace
RECURSIVE TrimLeft(_)
TrimLeft(s) == IF s # <<>> /\ Head(s) = " " THEN TrimLeft(Tail(s)) ELSE s

RECURSIVE TrimRight(_)
TrimRight(s) ==
    IF s # <<>> /\ s[Len(s)] = " " THEN TrimRight(SubSeq(s, 1, Len(s) - 1)) ELSE s

TrimSpace(s) == TrimRight(TrimLeft(s))

\* strings.Index(s, c) for a one-byte c, 1-based; 0 when absent (Go: -1).
StrIndex(s, c) ==
    IF \E i \in 1..Len(s) : s[i] = c
    THEN CHOOSE i \in 1..Len(s) : s[i] = c /\ \A j \in 1..(i - 1) : s[j] # c
    ELSE 0

RECURSIVE DigitsVal(_, _)
DigitsVal(s, acc) ==
    IF s = <<>> THEN acc ELSE DigitsVal(Tail(s), 10 * acc + DigitVal(Head(s)))

\* strconv.Atoi: an optional sign and then one or more decimal digits.
AtoiBody(s) == IF s # <<>> /\ Head(s) \in {"+", "-"} THEN Tail(s) ELSE s

AtoiOk(s) == AtoiBody(s) # <<>> /\ \A i \in 1..Len(AtoiBody(s)) : AtoiBody(s)[i] \in Digits

AtoiVal(s) ==
    IF s # <<>> /\ Head(s) = "-" THEN 0 - DigitsVal(AtoiBody(s), 0)
    ELSE DigitsVal(AtoiBody(s), 0)

\* ------------------------------------------------------------ utils.go
strRatingToInt(rating) ==
    IF rating = <<>> THEN 0
    ELSE LET idx == StrIndex(rating, "/")
             r   == IF idx # 0 THEN SubSeq(rating, 1, idx - 1) ELSE rating
         IN  IF AtoiOk(TrimSpace(r)) THEN AtoiVal(TrimSpace(r)) ELSE 0

\* The zero value of Player.
ZeroPlayer ==
    [FirstName |-> "", LastName |-> "", NameTitle |-> "", DisplayName |-> "",
     UscfID |-> 0, PrimaryRating |-> 0, SecondaryRating |-> 0,
     PairingNumber |-> 0, CurrentScore |-> 0, CurrentScoreAG |-> 0,
     PlaceNumber |-> 0, emptyResult |-> FALSE]

entryToPlayer(entry) ==
    [ZeroPlayer EXCEPT
        !.FirstName = entry.FirstName,
        !.LastName = entry.LastName,
        !.NameTitle = entry.ChessTitle,
        !.DisplayName = entry.FirstName \o " " \o entry.LastName,
        !.UscfID = entry.UscfID,
        !.PrimaryRating = strRatingToInt(entry.PrimaryRating),
        !.SecondaryRating = strRatingToInt(entry.SecondaryRating)]

StrOpen == <<"O", "p", "e", "n">>
StrChampionship == <<"C", "h", "a", "m", "p", "i", "o", "n", "s", "h", "i", "p">>

HasPrefixU(a) == a # <<>> /\ Head(a) = "U"
TrimPrefixU(a) == IF HasPrefixU(a) THEN Tail(a) ELSE a

\* SectionSorter.Less(i, j) with a = s[i], b = s[j]
SectionLess(a, b) ==
    IF a = StrOpen /\ b # StrOpen THEN TRUE
    ELSE IF b = StrOpen /\ a # StrOpen THEN FALSE
    ELSE IF a = StrChampionship /\ b # StrChampionship THEN TRUE
    ELSE IF b = StrChampionship /\ a # StrChampionship THEN FALSE
    ELSE LET ua == HasPrefixU(a)
             ub == HasPrefixU(b)
         IN  IF ua /\ ub /\ AtoiOk(TrimPrefixU(a)) /\ AtoiOk(TrimPrefixU(b))
             THEN AtoiVal(TrimPrefixU(a)) > AtoiVal(TrimPrefixU(b))
             ELSE IF ua # ub THEN ua
             ELSE StrLess(a, b)

\* sort.Sort on at most 12 elements is an insertion sort: element i moves
\* left while Less(it, left neighbour).
RECURSIVE InsertSection(_, _)
InsertSection(sorted, x) ==
    IF sorted # <<>> /\ SectionLess(x, sorted[Len(sorted)])
    THEN Append(InsertSection(SubSeq(sorted, 1, Len(sorted) - 1), x),
                sorted[Len(sorted)])
    ELSE Append(sorted, x)

RECURSIVE SortSections(_)
SortSections(names) ==
    IF names = <<>> THEN <<>>
    ELSE InsertSection(SortSections(SubSeq(names, 1, Len(names) - 1)),
                       names[Len(names)])

\* ----------------------------------------------------- round1pairings.go
white == 0
black == 1

HalfPointBye == 1     \* 0.5, in half points
FullPointBye == 2     \* 1.0, in half points

\* The zero value of Pairing.
ZeroPairing ==
    [WhitePlayer |-> ZeroPlayer, BlackPlayer |-> ZeroPlayer, Section |-> <<>>,
     RoundNumber |-> 0, BoardNumber |-> 0, IsByePairing |-> FALSE,
     WhitePoints |-> <<>>, BlackPoints |-> <<>>, ResultCode |-> "",
     WhiteResult |-> <<>>, BlackResult |-> <<>>]

\* buildOnePairing(w, b, boardNum); the caller adds one to *boardNum.
buildOnePairing(w, b, boardNum) ==
    [ZeroPairing EXCEPT
        !.WhitePlayer = entryToPlayer(w),
        !.BlackPlayer = entryToPlayer(b),
        !.Section = w.SectionName,
        !.RoundNumber = 1,
        !.BoardNumber = boardNum,
        !.IsByePairing = FALSE]

buildOneBye(w, points) ==
    [ZeroPairing EXCEPT
        !.WhitePlayer = entryToPlayer(w),
        !.Section = w.SectionName,
        !.RoundNumber = 1,
        !.BoardNumber = 0,
        !.IsByePairing = TRUE,
        !.WhitePoints = <<points>>]

\* Lexemes of a bye request. strings.ToLower on a word:
ToLowerTok(t) ==
    CASE t = "Round" -> "round" [] t = "Rnd" -> "rnd"
      [] t = "Rounds" -> "rounds" [] t = "Rnds" -> "rnds"
      [] OTHER -> t

RoundWords == {"round", "rnd", "rounds", "rnds"}
ListSeps == {",", "&", ";", "/"}
IsNumTok(t) == t \in Digits                 \* \d+ (round numbers: one digit)

\* [\s:]* after the round word: the first lexeme at or after i that is no colon
RECURSIVE SkipColons(_, _)
SkipColons(req, i) ==
    IF i <= Len(req) /\ req[i] = ":" THEN SkipColons(req, i + 1) ELSE i

\* \d+(?:\s*[,&;/]\s*\d+)* starting at the number req[i], greedy
RECURSIVE ListNums(_, _)
ListNums(req, i) ==
    <<req[i]>> \o
    (IF i + 2 <= Len(req) /\ req[i + 1] \in ListSeps /\ IsNumTok(req[i + 2])
     THEN ListNums(req, i + 2) ELSE <<>>)

ListMatchAt(req, i) ==
    /\ ToLowerTok(req[i]) \in RoundWords
    /\ SkipColons(req, i + 1) <= Len(req)
    /\ IsNumTok(req[SkipColons(req, i + 1)])

round1ByeRequested(req) ==
    IF req = <<>> THEN FALSE
    ELSE IF Len(req) = 1 /\ IsNumTok(req[1]) /\ DigitVal(req[1]) = 1 THEN TRUE
    ELSE IF \E i \in 1..Len(req) : ListMatchAt(req, i)
         THEN LET i    == CHOOSE k \in 1..Len(req) :
                              ListMatchAt(req, k) /\
                              \A j \in 1..(k - 1) : ~ListMatchAt(req, j)
                  nums == ListNums(req, SkipColons(req, i + 1))
              IN  \E k \in 1..Len(nums) : DigitVal(nums[k]) = 1
         ELSE FALSE

\* removeIndex taking out the element after index i
removeIndexNext(s, i) == SubSeq(s, 1, i + 1) \o SubSeq(s, i + 3, Len(s))

\* removeIndex(s, i), i counted from 0 as in the source
removeIndex(s, i) == SubSeq(s, 1, i) \o SubSeq(s, i + 2, Len(s))

\* the less function handed to sort.Slice (lines 83-86)
RatingLess(x, y) == strRatingToInt(x.PrimaryRating) > strRatingToInt(y.PrimaryRating)

\* sort.Slice on at most 12 elements is an insertion sort.
RECURSIVE InsertByRating(_, _)
InsertByRating(sorted, x) ==
    IF sorted # <<>> /\ RatingLess(x, sorted[Len(sorted)])
    THEN Append(InsertByRating(SubSeq(sorted, 1, Len(sorted) - 1), x),
                sorted[Len(sorted)])
    ELSE Append(sorted, x)

RECURSIVE insertionSort(_)
insertionSort(players) ==
    IF players = <<>> THEN <<>>
    ELSE InsertByRating(insertionSort(SubSeq(players, 1, Len(players) - 1)),
                        players[Len(players)])

\* sort.Slice on more than 12 elements is a pattern-defeating quicksort
\* (pdqsort_func of package sort, go 1.22). Indices count from 0 as in Go.
MaxInsertion == 12

At(data, i) == data[i + 1]

Swap(data, i, j) ==
    [k \in 1..Len(data) |->
        IF k = i + 1 THEN data[j + 1] ELSE IF k = j + 1 THEN data[i + 1] ELSE data[k]]

\* order2_func(data, a, b, swaps)
order2(data, a, b, swaps) ==
    IF RatingLess(At(data, b), At(data, a))
    THEN [x |-> b, y |-> a, swaps |-> swaps + 1]
    ELSE [x |-> a, y |-> b, swaps |-> swaps]

\* choosePivot_func for 8 <= length < 50: the median of the elements at
\* length/4, length/4*2 and length/4*3, and the number of swaps it took
medianLast(data, o1, o2) == order2(data, o1.x, o2.x, o2.swaps)

medianNext(data, o1, k) == medianLast(data, o1, order2(data, o1.y, k, o1.swaps))

median(data, i, j, k) == medianNext(data, order2(data, i, j, 0), k)

pivotOf(o3) == [pivot |-> o3.y, swaps |-> o3.swaps]

choosePivot(data) ==
    pivotOf(median(data, (Len(data) \div 4) * 1, (Len(data) \div 4) * 2,
                   (Len(data) \div 4) * 3))

\* partialInsertionSort_func on fewer than 50 elements: true, and nothing
\* moved, when no element is less than its predecessor; false otherwise
partialInsertionSort(data) ==
    \A i \in 1..(Len(data) - 1) : ~RatingLess(At(data, i), At(data, i - 1))

RECURSIVE ScanUp(_, _, _)
ScanUp(data, i, j) ==
    IF i <= j /\ RatingLess(At(data, i), At(data, 0)) THEN ScanUp(data, i + 1, j) ELSE i

RECURSIVE ScanDown(_, _, _)
ScanDown(data, i, j) ==
    IF i <= j /\ ~RatingLess(At(data, j), At(data, 0)) THEN ScanDown(data, i, j - 1) ELSE j

\* the loops of partition_func, the pivot at index 0
RECURSIVE PartitionLoop(_, _, _)
PartitionSwap(data, i, j) ==
    IF i > j THEN [data |-> Swap(data, j, 0), mid |-> j]
    ELSE PartitionLoop(Swap(data, i, j), i + 1, j - 1)

PartitionDown(data, i, j) == PartitionSwap(data, i, ScanDown(data, i, j))

PartitionLoop(data, i, j) == PartitionDown(data, ScanUp(data, i, j), j)

\* partition_func(data, 0, len, pivot)
partition(data, pivot) == PartitionLoop(Swap(data, 0, pivot), 1, Len(data) - 1)

\* pdqsort_func on MaxInsertion + 1 elements: both sides of the partition
\* have at most MaxInsertion elements and are insertion-sorted
sortSides(pr) ==
    insertionSort(SubSeq(pr.data, 1, pr.mid))
    \o <<At(pr.data, pr.mid)>>
    \o insertionSort(SubSeq(pr.data, pr.mid + 2, Len(pr.data)))

pdqsortFrom(data, cp) ==
    IF cp.swaps = 0 /\ partialInsertionSort(data) THEN data
    ELSE sortSides(partition(data, cp.pivot))

pdqsort(data) == pdqsortFrom(data, choosePivot(data))

\* sort.Slice(remainingPlayers, less)
SortByRating(players) ==
    IF Len(players) <= MaxInsertion THEN insertionSort(players) ELSE pdqsort(players)

\* the split of sec.Players (lines 76-82)
RequestedByes(players) ==
    SelectSeq(players, LAMBDA e : round1ByeRequested(e.ByeRequests))

RemainingPlayers(players) ==
    SelectSeq(players, LAMBDA e : ~round1ByeRequested(e.ByeRequests))

\* the opponent of remainingPlayers[0] (line 101), counted from 0
OppIndexLast(n) == n - 1

OppIndex(n) == n \div 2

\* lastTopColor before the first pairing of a section (line 97)
InitialTopColorWhite == white

InitialTopColor == black

\* the pairing loop (lines 97-113): result [Pairings, boardNum]
RECURSIVE PairLoop(_, _, _, _)
PairLoop(remainingPlayers, lastTopColor, boardNum, acc) ==
    IF Len(remainingPlayers) >= 2
    THEN LET n   == Len(remainingPlayers)
             top == remainingPlayers[1]
             opp == remainingPlayers[OppIndex(n) + 1]
             p   == IF lastTopColor = black
                    THEN buildOnePairing(top, opp, boardNum)
                    ELSE buildOnePairing(opp, top, boardNum)
             col == IF lastTopColor = black THEN white ELSE black
         IN  PairLoop(removeIndex(removeIndex(remainingPlayers, OppIndex(n)), 0),
                      col, boardNum + 1, Append(acc, p))
    ELSE [Pairings |-> acc, boardNum |-> boardNum]

RECURSIVE ByePairings(_, _)
ByePairings(es, points) ==
    IF es = <<>> THEN <<>>
    ELSE <<buildOneBye(Head(es), points)>> \o ByePairings(Tail(es), points)

\* the player taken out of an odd pool (lines 87-91), as a pointer
OddByeFirst(sorted) == IF Len(sorted) % 2 = 1 THEN <<sorted[1]>> ELSE <<>>

OddBye(sorted) == IF Len(sorted) % 2 = 1 THEN <<sorted[Len(sorted)]>> ELSE <<>>

\* buildPairingsInSection(sec, boardNum): result [Pairings, boardNum]
buildPairingsInSection(players, boardNum) ==
    LET requestedByes == RequestedByes(players)
        sorted   == SortByRating(RemainingPlayers(players))
        oddBye   == OddBye(sorted)
        remainingPlayers ==
            IF Len(sorted) % 2 = 1 THEN SubSeq(sorted, 1, Len(sorted) - 1) ELSE sorted
        loop     == PairLoop(remainingPlayers, InitialTopColor, boardNum, <<>>)
    IN  [Pairings |-> loop.Pairings
                      \o ByePairings(requestedByes, HalfPointBye)
                      \o ByePairings(oddBye, FullPointBye),
         boardNum |-> loop.boardNum]

\* the keys of the map built by the first loop of buildSections
SectionKeys(es) == {es[i].SectionName : i \in 1..Len(es)}

SectionPlayers(es, name) == SelectSeq(es, LAMBDA e : e.SectionName = name)

\* boardNum as the next section finds it: buildPairingsInSection counts on
\* through the pointer it is handed (lines 60, 63)
BoardAfterRestart(boardNum) == 1

BoardAfter(boardNum) == boardNum

\* the second loop of buildSections (lines 60-65) over the sorted names
RECURSIVE BuildLoop(_, _, _, _)
BuildLoop(es, names, boardNum, acc) ==
    IF names = <<>> THEN acc
    ELSE LET key == Head(names)
             r   == buildPairingsInSection(SectionPlayers(es, key), boardNum)
         IN  BuildLoop(es, Tail(names), BoardAfter(r.boardNum),
                       [k \in DOMAIN acc \cup {key} |->
                           IF k = key
                           THEN [Players |-> SectionPlayers(es, key),
                                 Pairings |-> r.Pairings]
                           ELSE acc[k]])

\* buildSections(entries); sorted is sectionNames after sort.Sort
buildSections(es, sorted) == BuildLoop(es, sorted, 1, <<>>)

\* the loop of predictRound1Pairings (lines 29-32) in the order the map is
\* ranged over
RECURSIVE AppendSections(_, _)
AppendSections(secs, order) ==
    IF order = <<>> THEN <<>>
    ELSE secs[Head(order)].Pairings \o AppendSections(secs, Tail(order))

\* The orders in which Go may range over a map with the keys S.
MapOrders(S) ==
    {p \in [1..Cardinality(S) -> S] : \A i, j \in 1..Cardinality(S) : p[i] = p[j] => i = j}

\* predictRound1Pairings(entries). keyOrder is the order in which
\* buildSections ranges over the map to collect sectionNames (line 55),
\* rangeOrder the order in which predictRound1Pairings ranges over the
\* returned map (line 30).
predictRound1Pairings(es, keyOrder, rangeOrder) ==
    AppendSections(buildSections(es, SortSections(keyOrder)), rangeOrder)

\* ------------------------------------------------- tournament.go: website
\* A cell text is the sequence of its whitespace-separated fields; a word is
\* a TLA+ string, and the conversions on words are tables over the words
\* that occur in the model's documents.

\* strconv.Atoi on a word: <<>> on error, <<n>> otherwise
AtoiWord(w) ==
    CASE w = "1" -> <<1>> [] w = "2" -> <<2>> [] w = "3" -> <<3>>
      [] w = "4" -> <<4>> [] w = "12" -> <<12>> [] w = "0" -> <<0>>
      [] w = "1500" -> <<1500>> [] w = "1800" -> <<1800>>
      [] w = "2250" -> <<2250>> [] w = "12345" -> <<12345>>
      [] w = "23456" -> <<23456>>
      [] OTHER -> <<>>

\* strconv.ParseFloat on a word, in half points: <<>> on error
ParseFloatWord(w) ==
    CASE w = "0" -> <<0>> [] w = "0.0" -> <<0>> [] w = "0.5" -> <<1>>
      [] w = "1" -> <<2>> [] w = "1.0" -> <<2>> [] w = "1.5" -> <<3>>
      [] w = "2" -> <<4>> [] w = "2.0" -> <<4>> [] w = "2.5" -> <<5>>
      [] w = "3" -> <<6>> [] w = "3.0" -> <<6>>
      [] OTHER -> <<>>

\* strings.Contains(w, "½")
ContainsHalf(w) == w \in {"½", "1½", "2½"}

\* strings.ToLower followed by an upper-case first rune (NormalizeName 55-60)
TitleWord(w) ==
    CASE w \in {"john", "JOHN", "John"} -> "John"
      [] w \in {"doe", "DOE", "Doe"} -> "Doe"
      [] w \in {"ann", "ANN", "Ann"} -> "Ann"
      [] w \in {"lee", "LEE", "Lee"} -> "Lee"
      [] w \in {"bye", "BYE", "Bye"} -> "Bye"
      [] OTHER -> w

\* internal.NormalizeName on the fields of s
NormalizeName(parts) ==
    IF Len(parts) = 0 THEN ""
    ELSE LET firstTitle == TitleWord(parts[1])
             lastTitle  == TitleWord(parts[Len(parts)])
         IN  IF firstTitle = lastTitle THEN firstTitle
             ELSE firstTitle \o " " \o lastTitle

\* strings.Fields of a name produced by NormalizeName
NameWords(parts) ==
    IF Len(parts) = 0 THEN <<>>
    ELSE IF TitleWord(parts[1]) = TitleWord(parts[Len(parts)])
         THEN <<TitleWord(parts[1])>>
    ELSE <<TitleWord(parts[1]), TitleWord(parts[Len(parts)])>>

\* A player cell of the pairings table: pre are the fields before "(",
\* paren tells whether "(...)" follows, inside are the fields in it.
\* strings.Fields(text) of the whole cell:
CellFields(cell) ==
    cell.pre \o (IF ~cell.paren THEN <<>>
                 ELSE IF cell.inside = <<>> THEN <<"()">> ELSE cell.inside)

\* parsePlayerRef(text)
parsePlayerRef(cell) ==
    IF ~cell.paren /\ Len(cell.pre) = 1 /\ TitleWord(cell.pre[1]) = "Bye"
    THEN [ZeroPlayer EXCEPT !.DisplayName = "BYE"]
    ELSE IF Len(CellFields(cell)) <= 1 THEN ZeroPlayer
    ELSE LET num   == AtoiWord(CellFields(cell)[1])
             words == NameWords(cell.pre)
             parts == IF cell.paren THEN cell.inside ELSE <<>>
             r     == IF Len(parts) >= 1 /\ parts[1] # "unr."
                      THEN AtoiWord(parts[1]) ELSE <<>>
             score == IF Len(parts) >= 2 THEN ParseFloatWord(parts[2]) ELSE <<>>
         IN  [ZeroPlayer EXCEPT
                 !.PairingNumber = IF num # <<>> THEN num[1] ELSE 0,
                 !.DisplayName = NormalizeName(cell.pre),
                 !.FirstName = IF Len(words) > 0 THEN words[1] ELSE "",
                 !.LastName = IF Len(words) > 1 THEN words[Len(words)] ELSE "",
                 !.PrimaryRating = IF r # <<>> THEN r[1] ELSE 0,
                 !.CurrentScore = IF score # <<>> THEN score[1] ELSE 0,
                 !.CurrentScoreAG = IF score # <<>> THEN score[1] ELSE 0,
                 !.emptyResult = score # <<>>]

\* lines 393-405: the result cell res applied to the player pl
WithResult(pl, res) ==
    IF res # "" /\ ParseFloatWord(res) # <<>>
    THEN [pl EXCEPT !.CurrentScoreAG = pl.CurrentScore + ParseFloatWord(res)[1],
                    !.emptyResult = FALSE]
    ELSE pl

\* lines 421-427: the points of a bye from its result cell
ByePoints(res) ==
    IF ContainsHalf(res) THEN 1
    ELSE IF ParseFloatWord(res) # <<>> THEN ParseFloatWord(res)[1]
    ELSE 0

\* parsePairingRow(row, section): <<>> when the row is skipped (ok = false),
\* <<pairing>> otherwise. A row has cells <td>s: board, white result,
\* white, black result, black.
parsePairingRow(row, section) ==
    IF row.cells < 5 THEN <<>>
    ELSE IF row.board \in {"Bd", "BD", "bd"} THEN <<>>
    ELSE LET board == IF AtoiWord(row.board) # <<>> THEN AtoiWord(row.board)[1] ELSE 0
             wp    == WithResult(parsePlayerRef(row.white), row.whiteRes)
             bp    == WithResult(parsePlayerRef(row.black), row.blackRes)
             pair  == [ZeroPairing EXCEPT
                          !.Section = section,
                          !.RoundNumber = 0,
                          !.BoardNumber = board,
                          !.WhitePlayer = wp,
                          !.BlackPlayer = bp,
                          !.ResultCode = row.whiteRes \o "-" \o row.blackRes,
                          !.WhiteResult = IF row.whiteRes # "" THEN <<row.whiteRes>> ELSE <<>>,
                          !.BlackResult = IF row.blackRes # "" THEN <<row.blackRes>> ELSE <<>>]
         IN  IF bp.DisplayName = "BYE" /\ wp.DisplayName # "BYE"
             THEN <<[pair EXCEPT !.IsByePairing = TRUE,
                                 !.WhitePoints = <<ByePoints(row.whiteRes)>>]>>
             ELSE IF wp.DisplayName = "BYE" /\ bp.DisplayName # "BYE"
             THEN <<[pair EXCEPT !.IsByePairing = TRUE,
                                 !.BlackPoints = <<ByePoints(row.blackRes)>>]>>
             ELSE <<pair>>

\* a scan of the rows that stops at the first row it skips
RECURSIVE parsePairingRowsAbort(_, _)
parsePairingRowsAbort(rows, section) ==
    IF rows = <<>> \/ parsePairingRow(Head(rows), section) = <<>> THEN <<>>
    ELSE parsePairingRow(Head(rows), section)
         \o parsePairingRowsAbort(Tail(rows), section)

\* parsePairingRows(tableSel, section, t): the pairings appended
RECURSIVE parsePairingRows(_, _)
parsePairingRows(rows, section) ==
    IF rows = <<>> THEN <<>>
    ELSE parsePairingRow(Head(rows), section) \o parsePairingRows(Tail(rows), section)

\* getPlayersBySection(t) for one section (standings.go 88-100)
RECURSIVE SectionPlayersOf(_, _)
SectionPlayersOf(ps, section) ==
    IF ps = <<>> THEN <<>>
    ELSE (IF Head(ps).Section # section THEN <<>>
          ELSE IF Head(ps).IsByePairing THEN <<Head(ps).WhitePlayer>>
          ELSE <<Head(ps).WhitePlayer, Head(ps).BlackPlayer>>)
         \o SectionPlayersOf(Tail(ps), section)

\* lines 316-326: CurrentScoreAG put back to CurrentScore
FixupScores(p) ==
    LET b == IF ~p.IsByePairing /\ ~p.BlackPlayer.emptyResult
             THEN [p.BlackPlayer EXCEPT !.CurrentScoreAG = p.BlackPlayer.CurrentScore]
             ELSE p.BlackPlayer
        w == IF ~p.WhitePlayer.emptyResult
             THEN [p.WhitePlayer EXCEPT !.CurrentScoreAG = p.WhitePlayer.CurrentScore]
             ELSE p.WhitePlayer
    IN  [p EXCEPT !.WhitePlayer = w, !.BlackPlayer = b]

\* the greatest of 0.0 and every CurrentScoreAG of a section's players: the
\* sort of lines 332-334 puts it at players[0]; the PlaceNumber of line 339
\* is written to the loop's copy of the player and is lost
MaxScore(ps) ==
    LET scores == {0} \cup UNION {
            {SectionPlayersOf(ps, ps[i].Section)[k].CurrentScoreAG :
                k \in 1..Len(SectionPlayersOf(ps, ps[i].Section))} : i \in 1..Len(ps)}
    IN  CHOOSE m \in scores : \A x \in scores : x <= m

\* int(math.Round(maxScore) + 1), maxScore >= 0 in half points
RoundNumberOf(maxScore) == ((maxScore + 1) \div 2) + 1

\* fixupStandings(t): the new t.CurrentPairings
fixupStandings(ps) ==
    LET haveAnyEmptyResult ==
            \E i \in 1..Len(ps) :
                \/ ps[i].WhitePlayer.emptyResult
                \/ (~ps[i].IsByePairing /\ ps[i].BlackPlayer.emptyResult)
        fixed == IF haveAnyEmptyResult
                 THEN [i \in 1..Len(ps) |-> FixupScores(ps[i])]
                 ELSE ps
    IN  [i \in 1..Len(fixed) |->
            [fixed[i] EXCEPT !.RoundNumber = RoundNumberOf(MaxScore(fixed))]]

\* The pairings document: the sequence of the sibling nodes of div#pairings,
\* a node being [tag, section, pairingsPrefix, rows]: section is the name the
\* heading's text yields (lines 246-259, 279-286), pairingsPrefix whether
\* an h3's text starts with "Pairings", rows the <tr>s of a table.

\* lines 262-268: the next sibling of node i that is a table, 0 when none
NextTable(doc, i) ==
    IF \E j \in (i + 1)..Len(doc) : doc[j].tag = "table"
    THEN CHOOSE j \in (i + 1)..Len(doc) :
            doc[j].tag = "table" /\ \A k \in (i + 1)..(j - 1) : doc[k].tag # "table"
    ELSE 0

HeadingPairings(doc, i) ==
    IF NextTable(doc, i) = 0 THEN <<>>
    ELSE parsePairingRows(doc[NextTable(doc, i)].rows, doc[i].section)

\* lines 238-271: the h1 and h2 headings from node i on, in document order
RECURSIVE H12Pass(_, _, _)
H12Pass(doc, i, hasSubSections) ==
    IF i > Len(doc) THEN <<>>
    ELSE (IF doc[i].tag \notin {"h1", "h2"} THEN <<>>
          ELSE IF doc[i].tag = "h1" /\ hasSubSections THEN <<>>
          ELSE HeadingPairings(doc, i))
         \o H12Pass(doc, i + 1, hasSubSections)

\* lines 274-298: the h3 headings from node i on
RECURSIVE H3Pass(_, _)
H3Pass(doc, i) ==
    IF i > Len(doc) THEN <<>>
    ELSE (IF doc[i].tag # "h3" \/ ~doc[i].pairingsPrefix THEN <<>>
          ELSE HeadingPairings(doc, i))
         \o H3Pass(doc, i + 1)

\* parsePairings(doc, t): the new t.CurrentPairings (the error is always nil)
parsePairings(doc) ==
    LET hasSubSections == \E i \in 1..Len(doc) : doc[i].tag = "h2"
    IN  fixupStandings(H12Pass(doc, 1, hasSubSections) \o H3Pass(doc, 1))

\* The entries document: the rows of table#members tbody, a row being
\* [cells, num, name, rating, uscf], name the fields of the name cell.
parsePlayerEntry(row) ==
    LET words == NameWords(row.name)
    IN  [ZeroPlayer EXCEPT
            !.DisplayName = NormalizeName(row.name),
            !.PairingNumber = IF AtoiWord(row.num) # <<>> THEN AtoiWord(row.num)[1] ELSE 0,
            !.PrimaryRating = IF AtoiWord(row.rating) # <<>> THEN AtoiWord(row.rating)[1] ELSE 0,
            !.UscfID = IF AtoiWord(row.uscf) # <<>> THEN AtoiWord(row.uscf)[1] ELSE 0,
            !.FirstName = IF Len(words) > 0 THEN words[1] ELSE "",
            !.LastName = IF Len(words) > 1 THEN words[Len(words)] ELSE ""]

\* parsePlayers(doc, t): the new t.Players (the error is always nil)
RECURSIVE parsePlayers(_)
parsePlayers(rows) ==
    IF rows = <<>> THEN <<>>
    ELSE (IF Head(rows).cells < 4 THEN <<>> ELSE <<parsePlayerEntry(Head(rows))>>)
         \o parsePlayers(Tail(rows))

\* ------------------------------------------------ inputs of the predictor
StrU1800 == <<"U", "1", "8", "0", "0">>
SectionChoices == {StrOpen, StrU1800}
RatingChoices == {<<"1", "8", "0", "0">>, <<"5", "5", "9", "/", "2", "4">>}
ByeChoices == {<<"1">>, <<"Rnds", "2", "&", "4">>}

FirstNames == <<"Ann", "Bob", "Cy", "Dee", "Eve", "Fay", "Gus", "Hal",
                "Ian", "Jo", "Kay", "Lou", "Max">>

\* The i-th registration of the event.
EntryAt(i, rating, sec, bye) ==
    [FirstName |-> FirstNames[i], LastName |-> "Doe", UscfID |-> 100 + i,
     ChessTitle |-> "", SectionName |-> sec, ByeRequests |-> bye,
     PrimaryRating |-> rating, SecondaryRating |-> <<>>]

NumByeRequests(es) == Cardinality({i \in 1..Len(es) : es[i].ByeRequests # <<>>})

\* ------------------------------------------- tournament.go: GetTournament
SourceAPI == 0
SourceWebsite == 1

\* The zero value of Tournament, &Tournament{}.
ZeroTournament ==
    [Players |-> <<>>, CurrentPairings |-> <<>>, isPredicted |-> FALSE,
     source |-> SourceAPI]

\* eventDetailToTournament(eventDetail)
RECURSIVE EntriesToPlayers(_)
EntriesToPlayers(es) ==
    IF es = <<>> THEN <<>>
    ELSE <<entryToPlayer(Head(es))>> \o EntriesToPlayers(Tail(es))

eventDetailToTournament(es, keyOrder, rangeOrder) ==
    [ZeroTournament EXCEPT
        !.Players = EntriesToPlayers(es),
        !.CurrentPairings = predictRound1Pairings(es, keyOrder, rangeOrder),
        !.isPredicted = TRUE]

ErrDo == "unable to fetch bcc tournament (do)"
ErrStatus == "unable to fetch: http status"
ErrDecode == "unable to parse bcc tournament"
ErrEmpty == "bcc tournament API returned an empty response"
ErrEntriesPage == "unable to fetch entries page"
ErrPairingsPage == "unable to fetch pairings page"

\* lines 134-147: the answer of getTournamentViaApi to a 200 response whose
\* body decodes to body.t, with an error unless body.valid
DecodeResult(body) ==
    IF ~body.valid THEN [t |-> <<ZeroTournament>>, err |-> <<ErrDecode>>]
    ELSE IF Len(body.t.CurrentPairings) = 0 /\ Len(body.t.Players) = 0
    THEN [t |-> <<ZeroTournament>>, err |-> <<ErrEmpty>>]
    ELSE [t |-> <<[ZeroTournament EXCEPT
                      !.Players = body.t.Players,
                      !.CurrentPairings = body.t.CurrentPairings,
                      !.source = SourceAPI]>>,
          err |-> <<>>]

\* lines 172-190: the answer of getTournamentViaWeb once both pages are in
WebResult(eRes, pRes) ==
    IF eRes.err # <<>> THEN [t |-> <<>>, err |-> <<ErrEntriesPage>>]
    ELSE IF pRes.err # <<>> THEN [t |-> <<>>, err |-> <<ErrPairingsPage>>]
    ELSE [t |-> <<[ZeroTournament EXCEPT
                      !.source = SourceWebsite,
                      !.Players = parsePlayers(eRes.doc),
                      !.CurrentPairings = parsePairings(pRes.doc)]>>,
          err |-> <<>>]

\* GetTournament answering with the website's tournament whenever it has one
GetTournamentPreferWeb(tApi, eApi, tWeb, eWeb) ==
    IF eWeb = <<>> THEN [t |-> tWeb, err |-> <<>>]
    ELSE [t |-> tApi, err |-> eApi]

\* GetTournament without the website fallback
GetTournamentApiOnly(tApi, eApi, tWeb, eWeb) ==
    [t |-> tApi, err |-> eApi]

\* GetTournament reporting the website's error when both legs fail
GetTournamentWebError(tApi, eApi, tWeb, eWeb) ==
    IF eApi # <<>>
    THEN IF eWeb # <<>> THEN [t |-> tApi, err |-> eWeb]
         ELSE [t |-> tWeb, err |-> <<>>]
    ELSE [t |-> tApi, err |-> eApi]

\* lines 92-100: what GetTournament returns after wg.Wait()
GetTournamentResult(tApi, eApi, tWeb, eWeb) ==
    IF eApi # <<>>
    THEN IF eWeb # <<>> THEN [t |-> tApi, err |-> eApi]
         ELSE [t |-> tWeb, err |-> <<>>]
    ELSE [t |-> tApi, err |-> eApi]

\* a Wait that returns while one goroutine is still running
WaitReturnsEarly(counter) == counter <= 1

\* wg.Wait() returns when the counter is zero
WaitReturns(counter) == counter = 0

\* ---------------------------------------------- inputs of GetTournament
NoCell == [pre |-> <<>>, paren |-> FALSE, inside |-> <<>>]
HeaderRow ==
    [cells |-> 5, board |-> "Bd", whiteRes |-> "Res", white |-> NoCell,
     blackRes |-> "Res", black |-> NoCell]
GameRow(board, wRes, w, bRes, b) ==
    [cells |-> 5, board |-> board, whiteRes |-> wRes, white |-> w,
     blackRes |-> bRes, black |-> b]
Cell(pre, inside) == [pre |-> pre, paren |-> TRUE, inside |-> inside]
ByeCell == [pre |-> <<"BYE">>, paren |-> FALSE, inside |-> <<>>]
Node(tag, section, prefix, rows) ==
    [tag |-> tag, section |-> section, pairingsPrefix |-> prefix, rows |-> rows]

CellJohn == Cell(<<"1", "John", "Doe">>, <<"2250", "1.0">>)
CellAnn == Cell(<<"2", "ANN", "lee">>, <<"1800", "0.5">>)
CellLee == Cell(<<"3", "Lee", "Lee">>, <<"unr.", "1.0">>)
CellDoe == Cell(<<"4", "Doe", "John">>, <<"1500", "2.0">>)

\* one heading, one table: a finished game and a bye
PairingsDocOne ==
    <<Node("h1", StrOpen, TRUE, <<>>), Node("p", <<>>, FALSE, <<>>),
      Node("table", <<>>, FALSE,
           <<HeaderRow, GameRow("1", "1", CellJohn, "0", CellAnn),
             GameRow("", "½", CellLee, "", ByeCell)>>)>>

\* a heading per section, a game in progress in the second
PairingsDocTwo ==
    <<Node("h1", <<>>, TRUE, <<>>),
      Node("h2", StrOpen, FALSE, <<>>),
      Node("table", <<>>, FALSE,
           <<HeaderRow, GameRow("1", "0.5", CellJohn, "0.5", CellAnn)>>),
      Node("h2", StrU1800, FALSE, <<>>),
      Node("table", <<>>, FALSE,
           <<HeaderRow, GameRow("2", "", CellLee, "", CellAnn)>>)>>

\* one table: a finished game, a bye without a result yet, and a bye with the
\* BYE token in the white column
PairingsDocBye ==
    <<Node("h1", StrOpen, TRUE, <<>>),
      Node("table", <<>>, FALSE,
           <<HeaderRow, GameRow("1", "1", CellJohn, "0", CellAnn),
             GameRow("", "", CellLee, "", ByeCell),
             GameRow("", "", ByeCell, "1", CellDoe)>>)>>

\* a row with too few cells
ShortRow ==
    [cells |-> 3, board |-> "2", whiteRes |-> "", white |-> NoCell,
     blackRes |-> "", black |-> NoCell]

\* one table whose rows are a game, a row with too few cells, the header
\* row again, and a second game
PairingsDocShort ==
    <<Node("h1", StrOpen, TRUE, <<>>),
      Node("table", <<>>, FALSE,
           <<HeaderRow, GameRow("1", "1", CellJohn, "0", CellAnn), ShortRow,
             HeaderRow, GameRow("2", "0", CellLee, "1", CellDoe)>>)>>

\* a sub-heading without a table, followed by a sub-heading with its table
PairingsDocGap ==
    <<Node("h1", <<>>, TRUE, <<>>),
      Node("h2", StrOpen, FALSE, <<>>),
      Node("h2", StrU1800, FALSE, <<>>),
      Node("table", <<>>, FALSE,
           <<HeaderRow, GameRow("1", "1", CellDoe, "0", CellAnn)>>)>>

\* the top-level heading followed by an h3 "Pairings: U1800" and its table
PairingsDocH3 ==
    <<Node("h1", StrOpen, TRUE, <<>>),
      Node("h3", StrU1800, TRUE, <<>>),
      Node("table", <<>>, FALSE,
           <<HeaderRow, GameRow("1", "1", CellJohn, "0", CellDoe)>>)>>

\* the page of an event without pairings
PairingsDocNone == <<Node("h1", StrOpen, TRUE, <<>>)>>

EntriesDocTwo ==
    <<[cells |-> 1, num |-> "", name |-> <<>>, rating |-> "", uscf |-> ""],
      [cells |-> 4, num |-> "1", name |-> <<"John", "Doe">>, rating |-> "2250",
       uscf |-> "12345"],
      [cells |-> 4, num |-> "2", name |-> <<"ANN", "lee">>, rating |-> "unr.",
       uscf |-> "23456"]>>

\* the entries table with a row of too few cells between two entries
EntriesDocShort ==
    <<[cells |-> 4, num |-> "1", name |-> <<"John", "Doe">>, rating |-> "2250",
       uscf |-> "12345"],
      [cells |-> 2, num |-> "3", name |-> <<"Lee">>, rating |-> "", uscf |-> ""],
      [cells |-> 4, num |-> "2", name |-> <<"ANN", "lee">>, rating |-> "1800",
       uscf |-> "23456"]>>

StrRating1800 == <<"1", "8", "0", "0">>
StrRatingProv == <<"5", "5", "9", "/", "2", "4">>

DetailEntriesTwo ==
    <<EntryAt(1, StrRating1800, StrOpen, <<>>),
      EntryAt(2, StrRatingProv, StrOpen, <<>>)>>

DetailEntriesFour ==
    DetailEntriesTwo \o
    <<EntryAt(3, StrRating1800, StrU1800, <<"1">>),
      EntryAt(4, StrRatingProv, StrU1800, <<>>)>>

\* a tournament as the API vends it: round 2 of a two-player event
ApiPlayers ==
    <<[entryToPlayer(DetailEntriesTwo[1]) EXCEPT !.PairingNumber = 1, !.CurrentScore = 2],
      [entryToPlayer(DetailEntriesTwo[2]) EXCEPT !.PairingNumber = 2]>>

ApiTournament ==
    [ZeroTournament EXCEPT
        !.Players = ApiPlayers,
        !.CurrentPairings =
            <<[ZeroPairing EXCEPT
                  !.WhitePlayer = ApiPlayers[2], !.BlackPlayer = ApiPlayers[1],
                  !.Section = StrOpen, !.RoundNumber = 2, !.BoardNumber = 1]>>]

\* What http.DefaultClient.Do answers for the tournament URL: an error, a
\* status other than 200, or 200 with a body.
ApiAnswers ==
    {[kind |-> "doErr", body |-> [t |-> ZeroTournament, valid |-> FALSE]],
     [kind |-> "notOK", body |-> [t |-> ZeroTournament, valid |-> FALSE]],
     [kind |-> "ok", body |-> [t |-> ApiTournament, valid |-> TRUE]],
     [kind |-> "ok", body |-> [t |-> ZeroTournament, valid |-> TRUE]],
     [kind |-> "ok", body |-> [t |-> [ZeroTournament EXCEPT !.Players = ApiPlayers],
                               valid |-> FALSE]]}

\* What GetEventDetail answers: an error, or the entries of the event.
DetailAnswers ==
    {[err |-> <<ErrStatus>>, entries |-> <<>>],
     [err |-> <<>>, entries |-> <<>>],
     [err |-> <<>>, entries |-> DetailEntriesTwo],
     [err |-> <<>>, entries |-> DetailEntriesFour]}

\* What fetchDoc answers for the two pages. The document of the entries page
\* is the rows that "table#members tbody tr" selects: none when the page has
\* no such table (table is FALSE).
EntriesAnswers ==
    {[err |-> <<"status 404">>, table |-> FALSE, doc |-> <<>>],
     [err |-> <<>>, table |-> FALSE, doc |-> <<>>],
     [err |-> <<>>, table |-> TRUE, doc |-> EntriesDocTwo],
     [err |-> <<>>, table |-> TRUE, doc |-> EntriesDocShort]}

PairingsAnswers ==
    {[err |-> <<"status 404">>, doc |-> <<>>],
     [err |-> <<>>, doc |-> PairingsDocNone],
     [err |-> <<>>, doc |-> PairingsDocOne],
     [err |-> <<>>, doc |-> PairingsDocTwo],
     [err |-> <<>>, doc |-> PairingsDocBye],
     [err |-> <<>>, doc |-> PairingsDocShort],
     [err |-> <<>>, doc |-> PairingsDocGap],
     [err |-> <<>>, doc |-> PairingsDocH3]}

Worlds ==
    [api : ApiAnswers, detail : DetailAnswers,
     entriesPage : EntriesAnswers, pairingsPage : PairingsAnswers]

NoAnswer == [err |-> <<>>, doc |-> <<>>]
NoReturn == [t |-> <<>>, err |-> <<>>]
NoReturnValue == [val |-> <<>>, err |-> <<>>]

\* ---------------------------------------------------------- GetTournament
InitGet ==
    /\ pc = [main |-> "start", api |-> "idle", web |-> "idle",
             entries |-> "idle", pairings |-> "idle"]
    /\ wg = 0
    /\ tViaApi = <<>>
    /\ apiErr = <<>>
    /\ tViaWeb = <<>>
    /\ webErr = <<>>
    /\ webWg = 0
    /\ entriesRes = NoAnswer
    /\ pairingsRes = NoAnswer
    /\ ret = NoReturn
    /\ pairingsOut = <<>>
    /\ standingsOut = <<>>

\* lines 78-89: wg.Add(2) and the two go statements
Start ==
    /\ pc.main = "start"
    /\ wg' = 2
    /\ pc' = [pc EXCEPT !.main = "wait", !.api = "do", !.web = "start"]
    /\ UNCHANGED <<world, tViaApi, apiErr, tViaWeb, webErr, webWg,
                   entriesRes, pairingsRes, ret, outVars, predVars, groupVars, estVars>>

\* The API goroutine returns r: the assignment of line 84 and wg.Done().
ApiReturns(r) ==
    /\ tViaApi' = r.t
    /\ apiErr' = r.err
    /\ wg' = wg - 1
    /\ pc' = [pc EXCEPT !.api = "done"]
    /\ UNCHANGED <<world, tViaWeb, webErr, webWg, entriesRes, pairingsRes,
                   ret, outVars, predVars, groupVars, estVars>>

\* getTournamentViaApi, lines 106-122: the request and its status
ApiDo ==
    /\ pc.api = "do"
    /\ \/ /\ world.api.kind = "doErr"
          /\ ApiReturns([t |-> <<ZeroTournament>>, err |-> <<ErrDo>>])
       \/ /\ world.api.kind # "doErr"
          /\ pc' = [pc EXCEPT !.api = IF world.api.kind = "ok" THEN "decode"
                                      ELSE "detail"]
          /\ UNCHANGED <<world, wg, tViaApi, apiErr, tViaWeb, webErr, webWg,
                         entriesRes, pairingsRes, ret, outVars, predVars, groupVars, estVars>>

\* getTournamentViaApi, lines 122-132: a status other than 200
ApiDetail ==
    /\ pc.api = "detail"
    /\ \/ /\ world.detail.err # <<>>
          /\ ApiReturns([t |-> <<ZeroTournament>>, err |-> <<ErrStatus>>])
       \/ /\ world.detail.err = <<>>
          /\ \E keyOrder \in MapOrders(SectionKeys(world.detail.entries)),
                rangeOrder \in MapOrders(SectionKeys(world.detail.entries)) :
                ApiReturns([t |-> <<eventDetailToTournament(
                                       world.detail.entries, keyOrder, rangeOrder)>>,
                            err |-> <<>>])

\* getTournamentViaApi, lines 134-147: status 200
ApiDecode ==
    /\ pc.api = "decode"
    /\ ApiReturns(DecodeResult(world.api.body))

\* getTournamentViaWeb, lines 158-169: wg.Add(2) and the two go statements
WebStart ==
    /\ pc.web = "start"
    /\ webWg' = 2
    /\ pc' = [pc EXCEPT !.web = "wait", !.entries = "fetch", !.pairings = "fetch"]
    /\ UNCHANGED <<world, wg, tViaApi, apiErr, tViaWeb, webErr,
                   entriesRes, pairingsRes, ret, outVars, predVars, groupVars, estVars>>

\* line 164: fetchDoc(entriesURL)
WebFetchEntries ==
    /\ pc.entries = "fetch"
    /\ entriesRes' = world.entriesPage
    /\ webWg' = webWg - 1
    /\ pc' = [pc EXCEPT !.entries = "done"]
    /\ UNCHANGED <<world, wg, tViaApi, apiErr, tViaWeb, webErr,
                   pairingsRes, ret, outVars, predVars, groupVars, estVars>>

\* line 168: fetchDoc(pairingsURL)
WebFetchPairings ==
    /\ pc.pairings = "fetch"
    /\ pairingsRes' = world.pairingsPage
    /\ webWg' = webWg - 1
    /\ pc' = [pc EXCEPT !.pairings = "done"]
    /\ UNCHANGED <<world, wg, tViaApi, apiErr, tViaWeb, webErr,
                   entriesRes, ret, outVars, predVars, groupVars, estVars>>

\* getTournamentViaWeb, lines 170-190, then line 88 and wg.Done()
WebParse ==
    /\ pc.web = "wait"
    /\ WaitReturns(webWg)
    /\ tViaWeb' = WebResult(entriesRes, pairingsRes).t
    /\ webErr' = WebResult(entriesRes, pairingsRes).err
    /\ wg' = wg - 1
    /\ pc' = [pc EXCEPT !.web = "done"]
    /\ UNCHANGED <<world, tViaApi, apiErr, webWg, entriesRes, pairingsRes,
                   ret, outVars, predVars, groupVars, estVars>>

\* lines 90-100: wg.Wait() returns and GetTournament returns
Return ==
    /\ pc.main = "wait"
    /\ WaitReturns(wg)
    /\ ret' = GetTournamentResult(tViaApi, apiErr, tViaWeb, webErr)
    /\ pc' = [pc EXCEPT !.main = "done"]
    /\ UNCHANGED <<world, wg, tViaApi, apiErr, tViaWeb, webErr, webWg,
                   entriesRes, pairingsRes, outVars, predVars, groupVars, estVars>>

\* ------------------------------------- pairings.go, standings.go: views
\* the sections of the pairings ps
PairingSections(ps) == {ps[i].Section : i \in 1..Len(ps)}

\* BuildPairingsOutput(t), lines 18-28 and 46-105: the sections in the order
\* their tables are written, a table per name of the sorted sectionNames
BuildPairingsOutput(t, keyOrder) == SortSections(keyOrder)

\* BuildStandingsOutput(t), lines 15-17 and 31-83: no table without
\* pairings, else a table per section in the order of the range over
\* secPlayers; the sorted sectionNames are used for their length only
BuildStandingsOutput(t, keyOrder, rangeOrder) ==
    IF Len(t.CurrentPairings) = 0 THEN <<>> ELSE rangeOrder

\* The caller renders the pairings of the tournament GetTournament returned.
ShowPairings ==
    /\ pc.main = "done"
    /\ ret.err = <<>>
    /\ \E keyOrder \in MapOrders(PairingSections(ret.t[1].CurrentPairings)) :
          pairingsOut' = <<BuildPairingsOutput(ret.t[1], keyOrder)>>
    /\ UNCHANGED <<getVars, standingsOut, predVars, groupVars, estVars>>

\* The caller renders the standings of the tournament GetTournament returned.
ShowStandings ==
    /\ pc.main = "done"
    /\ ret.err = <<>>
    /\ \E keyOrder \in MapOrders(PairingSections(ret.t[1].CurrentPairings)),
          rangeOrder \in MapOrders(PairingSections(ret.t[1].CurrentPairings)) :
          standingsOut' = <<BuildStandingsOutput(ret.t[1], keyOrder, rangeOrder)>>
    /\ UNCHANGED <<getVars, pairingsOut, predVars, groupVars, estVars>>

\* --------------------------------------- uschess: ratings of a member
StrUnrated == <<"<", "u", "n", "r", "a", "t", "e", "d", ">">>

DigitChar(d) ==
    CASE d = 0 -> "0" [] d = 1 -> "1" [] d = 2 -> "2" [] d = 3 -> "3"
      [] d = 4 -> "4" [] d = 5 -> "5" [] d = 6 -> "6" [] d = 7 -> "7"
      [] d = 8 -> "8" [] d = 9 -> "9"

\* strconv.Itoa(n), n >= 0
RECURSIVE Itoa(_)
Itoa(n) ==
    IF n < 10 THEN <<DigitChar(n)>> ELSE Itoa(n \div 10) \o <<DigitChar(n % 10)>>

\* a conversion that prints the rating as reported, 0 included
apiMemberToPlayerRaw(memberID, memberData) ==
    [MemberID |-> memberID,
     RegRating |-> Itoa(memberData.rating),
     TotalEvents |-> 0]

\* apiMemberToPlayer(memberID, memberData), memberData being the member's
\* rating of system "R": [rating, isProvisional, gamesPlayed]
apiMemberToPlayer(memberID, memberData) ==
    [MemberID |-> memberID,
     RegRating |->
        IF memberData.rating # 0
        THEN IF memberData.isProvisional
             THEN Itoa(memberData.rating) \o <<"P">> \o Itoa(memberData.gamesPlayed)
             ELSE Itoa(memberData.rating)
        ELSE StrUnrated,
     TotalEvents |-> 0]

\* addApiMemberEventsToPlayer(player, eventsData), eventsData.Items having
\* items elements
addApiMemberEventsToPlayer(player, items) == [player EXCEPT !.TotalEvents = items]

isUnrated(p) == TrimSpace(p.RegRating) = StrUnrated

\* parseRatingWithProvisionalGames(s): [base, provGames, hasProv, err]
RatingParseError == [base |-> 0, provGames |-> 0, hasProv |-> FALSE, err |-> TRUE]

parseRatingWithProvisionalGames(s) ==
    LET i == StrIndex(s, "P")
    IN  IF i # 0
        THEN LET baseStr  == TrimSpace(SubSeq(s, 1, i - 1))
                 gamesStr == TrimSpace(SubSeq(s, i + 1, Len(s)))
             IN  IF baseStr = <<>> \/ gamesStr = <<>> THEN RatingParseError
                 ELSE IF ~AtoiOk(baseStr) \/ ~AtoiOk(gamesStr) THEN RatingParseError
                 ELSE [base |-> AtoiVal(baseStr), provGames |-> AtoiVal(gamesStr),
                       hasProv |-> TRUE, err |-> FALSE]
        ELSE IF ~AtoiOk(s) THEN RatingParseError
        ELSE [base |-> AtoiVal(s), provGames |-> 0, hasProv |-> FALSE, err |-> FALSE]

\* an error value: what it says and the member or event it is about
Error(msg, who) == <<[msg |-> msg, who |-> who]>>

\* regRatingFloat(p): [val, err]
regRatingFloat(p) ==
    IF parseRatingWithProvisionalGames(p.RegRating).err
    THEN [val |-> 0, err |-> Error("parsing reg rating", p.MemberID)]
    ELSE [val |-> parseRatingWithProvisionalGames(p.RegRating).base, err |-> <<>>]

\* estimateGameCount(player)
estimateGameCount(player) ==
    LET r == parseRatingWithProvisionalGames(player.RegRating)
    IN  IF ~r.err /\ r.hasProv THEN r.provGames ELSE player.TotalEvents * 4

\* FetchPlayer(ctx, playerID) against the API's answer: [p, err]
FetchPlayerResult(playerID, answer) ==
    IF ~answer.ok THEN [p |-> <<>>, err |-> Error("fetch member", playerID)]
    ELSE [p |-> <<addApiMemberEventsToPlayer(
                     apiMemberToPlayer(playerID, answer), answer.items)>>,
          err |-> <<>>]

\* fetchOneRatedPlayer(ctx, playerID): [p, err]
fetchOneRatedPlayer(playerID, answer) ==
    LET r == FetchPlayerResult(playerID, answer)
    IN  IF r.err # <<>> THEN [p |-> <<>>, err |-> r.err]
        ELSE IF isUnrated(r.p[1])
        THEN [p |-> <<>>, err |-> Error("player is unrated", playerID)]
        ELSE r

\* ------------------------------------------ uschess: the rating estimator
\* A float64 rating is an integer number of 1/RatingScale points, a number
\* of games (N0) an integer number of tenths, an expected score an integer
\* number of 1/10000 points; K is the fraction num/den.
RatingScale == 1000

Abs(x) == IF x < 0 THEN 0 - x ELSE x

\* math.Sqrt, rounded down: the largest n in lo..hi with n * n <= v
RECURSIVE IsqrtLoop(_, _, _)
IsqrtLoop(v, lo, hi) ==
    IF lo >= hi THEN lo
    ELSE LET mid == (lo + hi + 1) \div 2
         IN  IF mid * mid <= v THEN IsqrtLoop(v, mid, hi) ELSE IsqrtLoop(v, lo, mid - 1)

Isqrt(v) == IsqrtLoop(v, 0, 46340)

\* expectedScore(myRating, oppRating) = 1 / (10^((opp - my) / 400) + 1), in
\* 1/10000, for the rating differences of the inputs
expectedScore(myRating, oppRating) ==
    CASE oppRating - myRating = 0 - 400 -> 9091
      [] oppRating - myRating = 0 - 200 -> 7597
      [] oppRating - myRating = 0 -> 5000
      [] oppRating - myRating = 200 -> 2403
      [] oppRating - myRating = 400 -> 909

\* provisionalWinningExpectancy(R, Ri) times 800, R and Ri in 1/RatingScale
provisionalWinningExpectancy(R, Ri) ==
    IF R <= Ri - 400 * RatingScale THEN 0
    ELSE IF R >= Ri + 400 * RatingScale THEN 800 * RatingScale
    ELSE 400 * RatingScale + (R - Ri)

\* effectiveGames(myOldRating, priorGames): N0 in tenths of a game
effectiveGames(myOldRating, priorGames) ==
    LET d     == 2569 - myOldRating
        \* 0.662 + 0.00000739 * d^2, in 1/1000
        x     == 662 + (((d * d) \div 100) * 739) \div 1000
        nStar == IF myOldRating <= 2355 THEN Isqrt(250000000 \div x) ELSE 500
    IN  IF priorGames * 10 < nStar THEN priorGames * 10 ELSE nStar

\* a KFactor without the dual-rated adjustment
KFactorStandard(myOldRating, N0, m, dualRatedOTBR) ==
    IF N0 + 10 * m <= 0 THEN [num |-> 0, den |-> 1]
    ELSE [num |-> 8000, den |-> N0 + 10 * m]

\* KFactor(myOldRating, N0, m, dualRatedOTBR), N0 in tenths: K = num / den
KFactor(myOldRating, N0, m, dualRatedOTBR) ==
    LET denom == N0 + 10 * m
    IN  IF denom <= 0 THEN [num |-> 0, den |-> 1]
        ELSE IF dualRatedOTBR /\ myOldRating > 2200
        THEN IF myOldRating >= 2500
             THEN [num |-> 10 * 200, den |-> denom]
             ELSE [num |-> 10 * ((800 * (65000 - 25 * myOldRating)) \div 10000),
                   den |-> denom]
        ELSE [num |-> 10 * 800, den |-> denom]

RECURSIVE SumPWe(_, _)
SumPWe(R, opponentRatings) ==
    IF opponentRatings = <<>> THEN 0
    ELSE provisionalWinningExpectancy(R, Head(opponentRatings) * RatingScale)
         + SumPWe(R, Tail(opponentRatings))

RECURSIVE MinRating(_, _)
MinRating(m, rs) ==
    IF rs = <<>> THEN m
    ELSE MinRating(IF Head(rs) < m THEN Head(rs) ELSE m, Tail(rs))

RECURSIVE MaxRating(_, _)
MaxRating(m, rs) ==
    IF rs = <<>> THEN m
    ELSE MaxRating(IF Head(rs) > m THEN Head(rs) ELSE m, Tail(rs))

\* a residual whose target S0 leaves out the prior games: S0 = score
ResidualNoPrior(R, myOldRating, N0, score, opponentRatings) ==
    2 * N0 * provisionalWinningExpectancy(R, myOldRating * RatingScale)
    + 20 * SumPWe(R, opponentRatings)
    - 800 * RatingScale * (10 * score)

\* specialRatingEstimate: f(R) times 2 * 10 * 800 * RatingScale; the score
\* in half points
Residual(R, myOldRating, N0, score, opponentRatings) ==
    2 * N0 * provisionalWinningExpectancy(R, myOldRating * RatingScale)
    + 20 * SumPWe(R, opponentRatings)
    - 800 * RatingScale * (10 * score + N0)

\* eps = 1e-7 on the scale of Residual
Eps == (16 * RatingScale) \div 10000

\* for i := 0; i < 10 && fl > 0; i++ { lo -= 1000 }
RECURSIVE WidenLo(_, _, _, _, _, _)
WidenLo(lo, i, myOldRating, N0, score, opponentRatings) ==
    IF i < 10 /\ Residual(lo, myOldRating, N0, score, opponentRatings) > 0
    THEN WidenLo(lo - 1000 * RatingScale, i + 1, myOldRating, N0, score, opponentRatings)
    ELSE lo

\* for i := 0; i < 10 && fh < 0; i++ { hi += 1000 }
RECURSIVE WidenHi(_, _, _, _, _, _)
WidenHi(hi, i, myOldRating, N0, score, opponentRatings) ==
    IF i < 10 /\ Residual(hi, myOldRating, N0, score, opponentRatings) < 0
    THEN WidenHi(hi + 1000 * RatingScale, i + 1, myOldRating, N0, score, opponentRatings)
    ELSE hi

\* The bisection loop. The bracket stops shrinking at one unit of
\* 1/RatingScale, where the code stops at 1e-9.
RECURSIVE Bisect(_, _, _, _, _, _, _)
Bisect(lo, hi, i, myOldRating, N0, score, opponentRatings) ==
    IF i < 200 /\ hi - lo > 1
    THEN LET mid == (lo + hi) \div 2
             fm  == Residual(mid, myOldRating, N0, score, opponentRatings)
         IN  IF Abs(fm) <= Eps THEN [lo |-> mid, hi |-> mid]
             ELSE IF fm < 0
             THEN Bisect(mid, hi, i + 1, myOldRating, N0, score, opponentRatings)
             ELSE Bisect(lo, mid, i + 1, myOldRating, N0, score, opponentRatings)
    ELSE [lo |-> lo, hi |-> hi]

\* specialRatingEstimate without the final clamp
specialRatingEstimateUnclamped(myOldRating, N0, score, opponentRatings) ==
    LET lo == WidenLo((MinRating(myOldRating, opponentRatings) - 1000) * RatingScale,
                      0, myOldRating, N0, score, opponentRatings)
        hi == WidenHi((MaxRating(myOldRating, opponentRatings) + 1000) * RatingScale,
                      0, myOldRating, N0, score, opponentRatings)
        b  == Bisect(lo, hi, 0, myOldRating, N0, score, opponentRatings)
    IN  (b.lo + b.hi) \div 2

\* specialRatingEstimate(myOldRating, N0, score, opponentRatings)
specialRatingEstimate(myOldRating, N0, score, opponentRatings) ==
    LET out == specialRatingEstimateUnclamped(myOldRating, N0, score, opponentRatings)
    IN  IF out < 100 * RatingScale THEN 100 * RatingScale
        ELSE IF out > 2700 * RatingScale THEN 2700 * RatingScale
        ELSE out

\* calcBonus(numGames, delta), delta in 1/RatingScale
calcBonus(numGames, delta) ==
    IF numGames >= 3
    THEN LET m0 == IF numGames < 4 THEN 4 ELSE numGames
             t  == delta - (Isqrt(m0 * 100000000) * RatingScale) \div 1000
         IN  IF t > 0 THEN t ELSE 0
    ELSE 0

RECURSIVE SumExpected(_, _)
SumExpected(myOldRating, opponentRatings) ==
    IF opponentRatings = <<>> THEN 0
    ELSE expectedScore(myOldRating, Head(opponentRatings))
         + SumExpected(myOldRating, Tail(opponentRatings))

\* getRatingEstimate(myOldRating, priorGames, score, opponentRatings,
\* dualRatedOTBR): the estimate in 1/RatingScale; the score in half points
getRatingEstimate(myOldRating, priorGames, score, opponentRatings, dualRatedOTBR) ==
    LET numGames == Len(opponentRatings)
        N0       == effectiveGames(myOldRating, priorGames)
        expected == SumExpected(myOldRating, opponentRatings)
        K        == KFactor(myOldRating, N0, numGames, dualRatedOTBR)
        delta    == (K.num * (5000 * score - expected))
                        \div ((K.den * 10000) \div RatingScale)
    IN  IF numGames = 0 THEN myOldRating * RatingScale
        ELSE IF priorGames <= 8
        THEN specialRatingEstimate(myOldRating, N0, score, opponentRatings)
        ELSE myOldRating * RatingScale + delta + calcBonus(numGames, delta)

\* the inputs of the estimator
OldRatings == {1500, 2000, 2200, 2300, 2500, 2550, 2750}
PriorGames == {0, 7, 8, 9, 100}
RatingDiffs == {0 - 400, 0, 200}
N0Choices == {0, 200}

EstimateArgs ==
    UNION {UNION {UNION {
        {[myOldRating |-> old, priorGames |-> n, score |-> sc, opponentRatings |-> o] :
            sc \in 0..(2 * m),
            o \in [1..m -> {old + d : d \in {e \in RatingDiffs : old + e >= 100}}]} :
        m \in 0..MaxGames} : n \in PriorGames} : old \in OldRatings}

NoArgs == [myOldRating |-> 0, priorGames |-> 0, score |-> 0, opponentRatings |-> <<>>]

InitEstimateIdle ==
    /\ estArgs = NoArgs
    /\ estStd = <<>>
    /\ estDual = <<>>
    /\ kCall = <<>>

InitEstimate ==
    /\ estArgs \in EstimateArgs
    /\ estStd = <<>>
    /\ estDual = <<>>
    /\ kCall = <<>>

\* getRatingEstimate(myOldRating, priorGames, score, opponentRatings, false)
EstimateStandard ==
    /\ estStd = <<>>
    /\ kCall = <<>>
    /\ estStd' = <<getRatingEstimate(estArgs.myOldRating, estArgs.priorGames,
                                     estArgs.score, estArgs.opponentRatings, FALSE)>>
    /\ UNCHANGED <<estArgs, estDual, kCall, predVars, getVars, outVars, groupVars>>

\* getRatingEstimate(myOldRating, priorGames, score, opponentRatings, true)
EstimateDual ==
    /\ estDual = <<>>
    /\ kCall = <<>>
    /\ estDual' = <<getRatingEstimate(estArgs.myOldRating, estArgs.priorGames,
                                      estArgs.score, estArgs.opponentRatings, TRUE)>>
    /\ UNCHANGED <<estArgs, estStd, kCall, predVars, getVars, outVars, groupVars>>

\* KFactor(myOldRating, N0, m, dualRatedOTBR)
ComputeK ==
    /\ estStd = <<>>
    /\ estDual = <<>>
    /\ kCall = <<>>
    /\ \E n0 \in N0Choices \cup {effectiveGames(estArgs.myOldRating, estArgs.priorGames)},
          dual \in BOOLEAN :
          kCall' = <<[myOldRating |-> estArgs.myOldRating, N0 |-> n0,
                      m |-> Len(estArgs.opponentRatings), dualRatedOTBR |-> dual,
                      K |-> KFactor(estArgs.myOldRating, n0,
                                    Len(estArgs.opponentRatings), dual)]>>
    /\ UNCHANGED <<estArgs, estStd, estDual, predVars, getVars, outVars, groupVars>>

\* ------------------------------------------ uschess: errgroup fan-out
KindEstimate == "GetRatingEstimate"
KindPlayer == "FetchPlayer"
KindCrossTables == "fetchRecentPlayerCrossTables"

\* What the member endpoint answers: an error, or the member's regular
\* rating (0: none) with the number of items of the events endpoint.
MemberAnswers ==
    {[ok |-> FALSE, rating |-> 0, isProvisional |-> FALSE, gamesPlayed |-> 0, items |-> 0],
     [ok |-> TRUE, rating |-> 0, isProvisional |-> FALSE, gamesPlayed |-> 0, items |-> 0],
     [ok |-> TRUE, rating |-> 1500, isProvisional |-> FALSE, gamesPlayed |-> 20, items |-> 5],
     [ok |-> TRUE, rating |-> 1450, isProvisional |-> TRUE, gamesPlayed |-> 7, items |-> 2]}

\* What the events endpoint answers.
EventsAnswers == {[ok |-> FALSE, items |-> 0], [ok |-> TRUE, items |-> 5]}

\* What FetchCrossTables answers for an event: an error, or its sections,
\* each with or without an entry of the player.
CrossTableAnswers(id) ==
    {[ok |-> FALSE, id |-> id, sections |-> <<>>],
     [ok |-> TRUE, id |-> id,
      sections |-> <<[name |-> "A", hasPlayer |-> TRUE], [name |-> "B", hasPlayer |-> FALSE]>>],
     [ok |-> TRUE, id |-> id, sections |-> <<[name |-> "B", hasPlayer |-> FALSE]>>]}

Min(a, b) == IF a < b THEN a ELSE b

\* The calls and what the API answers to the fetch of each worker: for
\* GetRatingEstimate worker 1 fetches the player and worker i + 1 the i-th
\* opponent; for FetchPlayer worker 1 fetches the profile and worker 2 the
\* events; for fetchRecentPlayerCrossTables worker i fetches the i-th of
\* the first eventCount recent events.
GroupWorlds ==
    {[kind |-> KindEstimate, answers |-> a] :
        a \in UNION {[1..n -> MemberAnswers] : n \in 1..(1 + MaxOpponents)}}
    \cup {[kind |-> KindPlayer, answers |-> <<a, e>>] :
              a \in MemberAnswers, e \in EventsAnswers}
    \cup UNION {UNION {
              {[kind |-> KindCrossTables, answers |-> SubSeq(a, 1, Min(n, eventCount))] :
                  a \in {f \in [1..n -> UNION {CrossTableAnswers(id) : id \in 1..n}] :
                            \A i \in 1..n : f[i].id = i}} :
              eventCount \in 1..MaxEvents} : n \in 0..MaxEvents}

NumWorkers == Len(gWorld.answers)

\* the sections of the event's cross tables that hold an entry of the player
RECURSIVE PlayerSections(_)
PlayerSections(sections) ==
    IF sections = <<>> THEN <<>>
    ELSE (IF Head(sections).hasPlayer THEN <<Head(sections)>> ELSE <<>>)
         \o PlayerSections(Tail(sections))

\* The function worker i runs in g.Go, up to its return: [val, err], val a
\* pointer to what it has to store.
WorkerRun(kind, i, answer) ==
    CASE kind = KindEstimate ->
            [val |-> fetchOneRatedPlayer(i, answer).p,
             err |-> fetchOneRatedPlayer(i, answer).err]
      [] kind = KindPlayer ->
            IF answer.ok THEN [val |-> <<answer>>, err |-> <<>>]
            ELSE [val |-> <<>>,
                  err |-> Error(IF i = 1 THEN "profile" ELSE "events", i)]
      [] kind = KindCrossTables ->
            IF answer.ok
            THEN [val |-> <<PlayerSections(answer.sections)>>, err |-> <<>>]
            ELSE [val |-> <<>>, err |-> Error("error fetching cross tables", answer.id)]

\* the worker's store: player or opponents[i], apiMember or apiMemberEvents,
\* or xTables[ev.ID] when xts is not empty
WorkerStore(kind, results, i, answer, val) ==
    IF kind = KindCrossTables
    THEN IF Len(val[1]) > 0 THEN (answer.id :> val[1]) @@ results ELSE results
    ELSE [results EXCEPT ![i] = val]

\* xTables[id] in Go: the zero value for a key the map does not hold
MapLookup(m, id) == IF id \in DOMAIN m THEN m[id] ELSE <<>>

\* an errgroup that keeps the error of the last worker that failed
errLast(old, new) == new

\* errgroup.Group: errOnce.Do(func() { g.err = err })
errOnce(old, new) == IF old = <<>> THEN new ELSE old

\* GetRatingEstimate after g.Wait() returned nil (lines 442-458). The
\* estimate is the value of getRatingEstimate on these arguments.
EstimateReturn(results, score) ==
    LET n    == Len(results)
        bad  == {i \in 1..n : regRatingFloat(results[i][1]).err # <<>>}
    IN  IF bad # {}
        THEN [val |-> <<>>,
              err |-> regRatingFloat(
                          results[CHOOSE i \in bad : \A j \in bad : i <= j][1]).err]
        ELSE [val |-> <<[myOldRating |-> regRatingFloat(results[1][1]).val,
                         priorGames |-> estimateGameCount(results[1][1]),
                         score |-> score,
                         opponentRatings |->
                             [i \in 1..(n - 1) |-> regRatingFloat(results[i + 1][1]).val],
                         dualRatedOTBR |-> FALSE]>>,
              err |-> <<>>]

\* what the call returns once g.Wait() has returned err
GroupReturn(kind, err, results) ==
    IF err # <<>> THEN [val |-> <<>>, err |-> err]
    ELSE CASE kind = KindEstimate -> EstimateReturn(results, 3)
           [] kind = KindPlayer ->
                [val |-> <<addApiMemberEventsToPlayer(
                              apiMemberToPlayer(1, results[1][1]), results[2][1].items)>>,
                 err |-> <<>>]
           [] kind = KindCrossTables -> [val |-> <<results>>, err |-> <<>>]

InitGroupIdle ==
    /\ gKind = "none"
    /\ gWorld = [kind |-> "none", answers |-> <<>>]
    /\ gPc = "idle"
    /\ gWorker = <<>>
    /\ mu = 0
    /\ gErr = <<>>
    /\ gCtxDone = FALSE
    /\ gCallerDone = FALSE
    /\ gCancelInFlight = FALSE
    /\ gFailOrder = <<>>
    /\ gResults = <<>>
    /\ gRet = NoReturnValue

InitGroup ==
    /\ gWorld \in GroupWorlds
    /\ gKind = gWorld.kind
    /\ gPc = "launch"
    /\ gWorker = [i \in 1..Len(gWorld.answers) |-> "idle"]
    /\ mu = 0
    /\ gErr = <<>>
    /\ gCtxDone = FALSE
    /\ gCallerDone = FALSE
    /\ gCancelInFlight = FALSE
    /\ gFailOrder = <<>>
    /\ gResults = IF gWorld.kind = KindCrossTables THEN <<>>
                  ELSE [i \in 1..Len(gWorld.answers) |-> <<>>]
    /\ gRet = NoReturnValue

\* g.Go(f): the caller launches its next worker
GroupGo ==
    /\ gPc = "launch"
    /\ \E i \in 1..NumWorkers :
          /\ gWorker[i] = "idle"
          /\ \A j \in 1..(i - 1) : gWorker[j] # "idle"
          /\ gWorker' = [gWorker EXCEPT ![i] = "running"]
    /\ UNCHANGED <<mu, gKind, gWorld, gPc, gErr, gCtxDone, gCallerDone,
                   gCancelInFlight, gFailOrder, gResults, gRet,
                   predVars, getVars, outVars, estVars>>

\* Worker i returns from f: its fetch has ended as the API answers, whatever
\* the state of its context (the requests are built with http.NewRequest
\* and carry no context); then the errgroup's bookkeeping.
WorkerReturn ==
    \E i \in 1..NumWorkers :
        /\ gWorker[i] = "running"
        /\ gWorker' = [gWorker EXCEPT ![i] = "done"]
        /\ LET r == WorkerRun(gKind, i, gWorld.answers[i])
           IN  IF r.err # <<>>
               THEN /\ gErr' = errOnce(gErr, r.err)
                    /\ gCtxDone' = TRUE
                    /\ gFailOrder' = Append(gFailOrder, i)
                    /\ UNCHANGED gResults
               ELSE /\ gResults' = WorkerStore(gKind, gResults, i, gWorld.answers[i], r.val)
                    /\ UNCHANGED <<gErr, gCtxDone, gFailOrder>>
        /\ UNCHANGED <<mu, gKind, gWorld, gPc, gCallerDone, gCancelInFlight, gRet,
                       predVars, getVars, outVars, estVars>>

\* The worker of fetchRecentPlayerCrossTables step by step (lines 125-146).
\* a mutex that lets every Lock through
LockReturnsAlways(m) == TRUE

\* mu.Lock() returns when the mutex is unlocked
LockReturns(m) == m = 0

\* FetchCrossTables has answered and xts is built (lines 126-140): the
\* worker returns its error, or nil when xts is empty, or goes on to store
XFetch ==
    \E i \in 1..NumWorkers :
        /\ gKind = KindCrossTables
        /\ gWorker[i] = "running"
        /\ LET r == WorkerRun(gKind, i, gWorld.answers[i])
           IN  IF r.err # <<>>
               THEN /\ gErr' = errOnce(gErr, r.err)
                    /\ gCtxDone' = TRUE
                    /\ gFailOrder' = Append(gFailOrder, i)
                    /\ gWorker' = [gWorker EXCEPT ![i] = "done"]
               ELSE /\ gWorker' = [gWorker EXCEPT ![i] =
                                      IF Len(r.val[1]) > 0 THEN "fetched" ELSE "done"]
                    /\ UNCHANGED <<gErr, gCtxDone, gFailOrder>>
        /\ UNCHANGED <<mu, gKind, gWorld, gPc, gCallerDone, gCancelInFlight,
                       gResults, gRet, predVars, getVars, outVars, estVars>>

\* mu.Lock() (line 142)
XLock ==
    \E i \in 1..NumWorkers :
        /\ gWorker[i] = "fetched"
        /\ LockReturns(mu)
        /\ mu' = i
        /\ gWorker' = [gWorker EXCEPT ![i] = "locked"]
        /\ UNCHANGED <<gKind, gWorld, gPc, gErr, gCtxDone, gCallerDone,
                       gCancelInFlight, gFailOrder, gResults, gRet,
                       predVars, getVars, outVars, estVars>>

\* xTables[ev.ID] = xts (line 143)
XStore ==
    \E i \in 1..NumWorkers :
        /\ gWorker[i] = "locked"
        /\ gResults' = WorkerStore(gKind, gResults, i, gWorld.answers[i],
                                   WorkerRun(gKind, i, gWorld.answers[i]).val)
        /\ gWorker' = [gWorker EXCEPT ![i] = "written"]
        /\ UNCHANGED <<mu, gKind, gWorld, gPc, gErr, gCtxDone, gCallerDone,
                       gCancelInFlight, gFailOrder, gRet,
                       predVars, getVars, outVars, estVars>>

\* mu.Unlock() and return nil (lines 144-146)
XUnlock ==
    \E i \in 1..NumWorkers :
        /\ gWorker[i] = "written"
        /\ mu' = 0
        /\ gWorker' = [gWorker EXCEPT ![i] = "done"]
        /\ UNCHANGED <<gKind, gWorld, gPc, gErr, gCtxDone, gCallerDone,
                       gCancelInFlight, gFailOrder, gResults, gRet,
                       predVars, getVars, outVars, estVars>>

\* The caller's context is cancelled while the call is in progress.
CallerCancel ==
    /\ gPc = "launch"
    /\ ~gCallerDone
    /\ gCallerDone' = TRUE
    /\ gCtxDone' = TRUE
    /\ gCancelInFlight' = (\E i \in 1..NumWorkers : gWorker[i] \notin {"idle", "done"})
    /\ UNCHANGED <<mu, gKind, gWorld, gPc, gWorker, gErr, gFailOrder, gResults, gRet,
                   predVars, getVars, outVars, estVars>>

\* g.Wait() returns, and the call returns
GroupWait ==
    /\ gPc = "launch"
    /\ \A i \in 1..NumWorkers : gWorker[i] # "idle"
    /\ WaitReturns(Cardinality({i \in 1..NumWorkers : gWorker[i] # "done"}))
    /\ gRet' = GroupReturn(gKind, gErr, gResults)
    /\ gCtxDone' = TRUE
    /\ gPc' = "done"
    /\ UNCHANGED <<mu, gKind, gWorld, gWorker, gErr, gCallerDone, gCancelInFlight,
                   gFailOrder, gResults, predVars, getVars, outVars, estVars>>

\* ------------------------------------------------------------- predictor
InitPredictor ==
    /\ entries = <<>>
    /\ ran = FALSE
    /\ sectionNames = <<>>
    /\ pairings = <<>>

\* A player registers for the event: EventDetail.Entries grows by one Entry.
Register ==
    /\ ~ran
    /\ Len(entries) < MaxEntries
    /\ \E r \in RatingChoices, s \in SectionChoices, q \in ByeChoices \cup {<<>>} :
          /\ q # <<>> => NumByeRequests(entries) < MaxByes
          /\ entries' = Append(entries, EntryAt(Len(entries) + 1, r, s, q))
    /\ UNCHANGED <<ran, sectionNames, pairings, getVars, outVars, groupVars, estVars>>

\* One call predictRound1Pairings(entries).
Predict ==
    \E keyOrder \in MapOrders(SectionKeys(entries)),
       rangeOrder \in MapOrders(SectionKeys(entries)) :
            /\ sectionNames' = SortSections(keyOrder)
            /\ pairings' = predictRound1Pairings(entries, keyOrder, rangeOrder)
            /\ ran' = TRUE
            /\ UNCHANGED <<entries, getVars, outVars, groupVars, estVars>>

vars == <<predVars, getVars, outVars, groupVars, estVars>>

\* GetTournament(eventId) against every answer of the two servers.
Init ==
    /\ world \in Worlds
    /\ InitGet
    /\ InitPredictor
    /\ InitGroupIdle
    /\ InitEstimateIdle

Next ==
    \/ Start
    \/ ApiDo
    \/ ApiDetail
    \/ ApiDecode
    \/ WebStart
    \/ WebFetchEntries
    \/ WebFetchPairings
    \/ WebParse
    \/ Return
    \/ ShowPairings
    \/ ShowStandings

Spec == Init /\ [][Next]_vars

\* predictRound1Pairings on every entry list of the bounds.
InitPredict ==
    /\ world = CHOOSE w \in Worlds : w.api.kind = "doErr"
    /\ InitGet
    /\ InitPredictor
    /\ InitGroupIdle
    /\ InitEstimateIdle

NextPredict == Register \/ Predict

SpecPredict == InitPredict /\ [][NextPredict]_vars

\* The predictor on the entry lists of one section of MaxInsertion or
\* MaxInsertion + 1 entrants, none of whom requests a bye and at most
\* MaxHigher of whom have the higher of the two ratings.
MaxHigher == 2

LargeFields ==
    UNION {{[i \in 1..n |->
                EntryAt(i, IF i \in high THEN <<"1", "8", "0", "0">>
                                         ELSE <<"5", "5", "9", "/", "2", "4">>,
                        StrOpen, <<>>)] :
               high \in {h \in SUBSET (1..n) : Cardinality(h) <= MaxHigher}} :
           n \in {MaxInsertion, MaxInsertion + 1}}

InitSeed ==
    /\ world = CHOOSE w \in Worlds : w.api.kind = "doErr"
    /\ InitGet
    /\ entries \in LargeFields
    /\ ran = FALSE
    /\ sectionNames = <<>>
    /\ pairings = <<>>
    /\ InitGroupIdle
    /\ InitEstimateIdle

NextSeed == Predict

SpecSeed == InitSeed /\ [][NextSeed]_vars

\* The predictor on entry lists whose section names mix Open, numeric
\* U-sections and a U-prefixed name that is not numeric.
StrU2000 == <<"U", "2", "0", "0", "0">>
StrU1800Reserve == StrU1800 \o <<" ", "R", "e", "s", "e", "r", "v", "e">>

MixedSections == {StrOpen, StrU2000, StrU1800, StrU1800Reserve}

MaxMixed == 3

MixedFields ==
    UNION {{[i \in 1..n |-> EntryAt(i, <<"1", "8", "0", "0">>, sec[i], <<>>)] :
               sec \in [1..n -> MixedSections]} :
           n \in 1..MaxMixed}

InitSections ==
    /\ world = CHOOSE w \in Worlds : w.api.kind = "doErr"
    /\ InitGet
    /\ entries \in MixedFields
    /\ ran = FALSE
    /\ sectionNames = <<>>
    /\ pairings = <<>>
    /\ InitGroupIdle
    /\ InitEstimateIdle

NextSections == Predict

SpecSections == InitSections /\ [][NextSections]_vars

\* The errgroup calls against every answer of the ratings API.
InitGroupSpec ==
    /\ world = CHOOSE w \in Worlds : w.api.kind = "doErr"
    /\ InitGet
    /\ InitPredictor
    /\ InitGroup
    /\ InitEstimateIdle

NextGroup == GroupGo \/ WorkerReturn \/ CallerCancel \/ GroupWait

SpecGroup == InitGroupSpec /\ [][NextGroup]_vars

\* fetchRecentPlayerCrossTables with the steps of its workers told apart.
InitXTables ==
    /\ InitGroupSpec
    /\ gKind = KindCrossTables

NextXTables ==
    GroupGo \/ XFetch \/ XLock \/ XStore \/ XUnlock \/ CallerCancel \/ GroupWait

SpecXTables == InitXTables /\ [][NextXTables]_vars

\* The estimator on every input of EstimateArgs.
InitEstimateSpec ==
    /\ world = CHOOSE w \in Worlds : w.api.kind = "doErr"
    /\ InitGet
    /\ InitPredictor
    /\ InitGroupIdle
    /\ InitEstimate

NextEstimate == EstimateStandard \/ EstimateDual \/ ComputeK

SpecEstimate == InitEstimateSpec /\ [][NextEstimate]_vars

\* ================================================ claims: GetTournament
ApiErrors == {ErrDo, ErrStatus, ErrDecode, ErrEmpty}
WebErrors == {ErrEntriesPage, ErrPairingsPage}
Returned == pc.main = "done"

\* t points to a tournament that carries players or pairings
Populated(t) ==
    t # <<>> /\ (t[1].Players # <<>> \/ t[1].CurrentPairings # <<>>)

\* C1: when the API leg succeeds, GetTournament returns the API leg's
\* tournament with a nil error, whatever the website leg returned.
C1_ApiSuccessWins ==
    (Returned /\ apiErr = <<>>) => ret = [t |-> tViaApi, err |-> <<>>]

\* the API leg succeeded, the website leg succeeded with another tournament
C1_Witness ==
    /\ Returned
    /\ apiErr = <<>>
    /\ webErr = <<>>
    /\ Populated(tViaWeb)
    /\ tViaWeb # tViaApi
    /\ ~tViaApi[1].isPredicted

\* C2: when the API leg fails and the website leg succeeds, GetTournament
\* returns the website leg's tournament with a nil error.
C2_WebFallback ==
    (Returned /\ apiErr # <<>> /\ webErr = <<>>) =>
        ret = [t |-> tViaWeb, err |-> <<>>]

\* the API leg failed, the website leg parsed players and pairings
C2_Witness ==
    /\ Returned
    /\ apiErr # <<>>
    /\ webErr = <<>>
    /\ tViaWeb[1].Players # <<>>
    /\ tViaWeb[1].CurrentPairings # <<>>
    /\ tViaWeb[1].source = SourceWebsite

\* C3: when both legs fail, GetTournament returns the API leg's error, not
\* the website leg's, and a tournament without players and pairings; a
\* non-nil error never comes with a populated tournament.
C3_BothFail ==
    /\ (Returned /\ apiErr # <<>> /\ webErr # <<>>) =>
            /\ ret.err = apiErr
            /\ ret.err[1] \in ApiErrors
            /\ ret.err[1] \notin WebErrors
            /\ ~Populated(ret.t)
    /\ (Returned /\ ret.err # <<>>) => ~Populated(ret.t)

\* both legs failed, the API leg on a body that decoded in part
C3_Witness ==
    /\ Returned
    /\ apiErr = <<ErrDecode>>
    /\ webErr # <<>>
    /\ world.api.body.t.Players # <<>>

\* C4: GetTournament returns a predicted tournament only when the event has
\* entries and no live pairings are published: never in a run where the
\* website leg succeeded with parsed pairings, never from an empty entry list.
C4_PredictedOnlyWithoutLivePairings ==
    (Returned /\ ret.t # <<>> /\ ret.t[1].isPredicted) =>
        /\ world.detail.entries # <<>>
        /\ ~(webErr = <<>> /\ tViaWeb[1].CurrentPairings # <<>>)

\* C5: GetTournament returns only after both legs have completed, also when
\* the API leg has already succeeded.
C5_ReturnsAfterBothLegs ==
    Returned => (pc.api = "done" /\ pc.web = "done" /\ wg = 0)

\* the API leg has succeeded, the website leg is still fetching, and
\* GetTournament is still in wg.Wait()
C5_Witness ==
    /\ pc.main = "wait"
    /\ pc.api = "done"
    /\ apiErr = <<>>
    /\ Populated(tViaApi)
    /\ pc.web = "wait"
    /\ webWg > 0

\* ================================================ claims: website parser
\* the website leg has returned the tournament it parsed
WebParsed == pc.web = "done" /\ webErr = <<>>

\* the pairings document holds a table
HasTable(doc) == \E i \in 1..Len(doc) : doc[i].tag = "table"

\* C11: getTournamentViaWeb returns an error when the entries document has
\* no entries table and when the pairings document has no pairings table:
\* it never returns a nil error with either table missing.
C11_MissingTableIsError ==
    (pc.web = "done" /\ webErr = <<>>) =>
        (world.entriesPage.table /\ HasTable(world.pairingsPage.doc))

\* the player cells of the rows of the document's tables
DocCells(doc) ==
    UNION {UNION {{doc[i].rows[k].white, doc[i].rows[k].black} :
                     k \in 1..Len(doc[i].rows)} :
              i \in {j \in 1..Len(doc) : doc[j].tag = "table"}}

\* a cell of the form "<n> <First> <Last> (<rating> <score>)"
WellFormedCell(c) ==
    /\ Len(c.pre) = 3
    /\ AtoiWord(c.pre[1]) # <<>>
    /\ TitleWord(c.pre[2]) = c.pre[2]
    /\ TitleWord(c.pre[3]) = c.pre[3]
    /\ c.pre[2] # c.pre[3]
    /\ c.paren
    /\ Len(c.inside) = 2
    /\ AtoiWord(c.inside[1]) # <<>>
    /\ ParseFloatWord(c.inside[2]) # <<>>

\* the players on the two sides of the pairings of t
PairingPlayers(t) ==
    {t.CurrentPairings[i].WhitePlayer : i \in 1..Len(t.CurrentPairings)} \cup
    {t.CurrentPairings[i].BlackPlayer : i \in 1..Len(t.CurrentPairings)}

\* C12: a pairings cell "<n> <First> <Last> (<rating> <score>)" is parsed to
\* a player with pairing number n, display name "First Last", primary
\* rating <rating> and current score <score>.
C12_PlayerRefFields ==
    WebParsed =>
        \A c \in DocCells(world.pairingsPage.doc) :
            WellFormedCell(c) =>
                \E pl \in PairingPlayers(tViaWeb[1]) :
                    /\ pl.PairingNumber = AtoiWord(c.pre[1])[1]
                    /\ pl.DisplayName = c.pre[2] \o " " \o c.pre[3]
                    /\ pl.PrimaryRating = AtoiWord(c.inside[1])[1]
                    /\ pl.CurrentScore = ParseFloatWord(c.inside[2])[1]

\* 1 + the position of l[k] in l sorted by CurrentScoreAG descending, ties
\* in input order
StableRank(l, k) ==
    1 + Cardinality({j \in 1..Len(l) : l[j].CurrentScoreAG > l[k].CurrentScoreAG})
      + Cardinality({j \in 1..(k - 1) : l[j].CurrentScoreAG = l[k].CurrentScoreAG})

\* C13: after the standings fixup every player of the tournament's pairings
\* has PlaceNumber 1 + its position in its section's list sorted by
\* CurrentScoreAG descending, ties in input order.
C13_PlaceNumbers ==
    WebParsed =>
        \A sec \in PairingSections(tViaWeb[1].CurrentPairings) :
            LET l == SectionPlayersOf(tViaWeb[1].CurrentPairings, sec)
            IN  \A k \in 1..Len(l) : l[k].PlaceNumber = StableRank(l, k)

\* the result cells of the players of the pairings ps: <<player, result>>,
\* the result a pointer to the text of the cell
PlayerResults(ps) ==
    {<<ps[i].WhitePlayer, ps[i].WhiteResult>> : i \in 1..Len(ps)} \cup
    {<<ps[i].BlackPlayer, ps[i].BlackResult>> :
        i \in {j \in 1..Len(ps) : ~ps[j].IsByePairing}}

\* the numeric results 0, 0.5 and 1, in half points
NumericResults == {<<0>>, <<1>>, <<2>>}

\* a fetch in the middle of a round: a player has no recorded result
MidRound(ps) == \E pr \in PlayerResults(ps) : pr[2] = <<>>

\* C14: after the fixup of a mid-round fetch every player without a
\* recorded result has CurrentScoreAG = CurrentScore, and every player with
\* a recorded numeric result r in {0, 0.5, 1} has CurrentScoreAG =
\* CurrentScore + r.
C14_MidRoundScores ==
    (WebParsed /\ MidRound(tViaWeb[1].CurrentPairings)) =>
        \A pr \in PlayerResults(tViaWeb[1].CurrentPairings) :
            /\ pr[2] = <<>> => pr[1].CurrentScoreAG = pr[1].CurrentScore
            /\ (pr[2] # <<>> /\ ParseFloatWord(pr[2][1]) \in NumericResults) =>
                   pr[1].CurrentScoreAG =
                       pr[1].CurrentScore + ParseFloatWord(pr[2][1])[1]

\* the highest CurrentScoreAG of any player of the pairings of t, 0 at least
HighestScore(t) ==
    LET scores == {0} \cup {pl.CurrentScoreAG : pl \in PairingPlayers(t)}
    IN  CHOOSE m \in scores : \A x \in scores : x <= m

\* C15: after the fixup every pairing of the tournament carries the same
\* round number, round(maxSectionScore) + 1, maxSectionScore being the
\* highest CurrentScoreAG of any player in any section; it is at least 1.
C15_RoundNumber ==
    WebParsed =>
        \A i \in 1..Len(tViaWeb[1].CurrentPairings) :
            /\ tViaWeb[1].CurrentPairings[i].RoundNumber =
                   RoundNumberOf(HighestScore(tViaWeb[1]))
            /\ tViaWeb[1].CurrentPairings[i].RoundNumber >= 1

\* a side of a pairing that holds a player: neither the zero Player nor the
\* BYE token
IsPlayerSide(pl) == pl.DisplayName \notin {"", "BYE"}

\* the points a bye awards: 0.5 or 1.0, in half points
ByeAwards == {<<HalfPointBye>>, <<FullPointBye>>}

\* exactly one side of the bye p holds a player and its points are 0.5 or 1.0
ByeWellFormed(p) ==
    \/ /\ IsPlayerSide(p.WhitePlayer)
       /\ ~IsPlayerSide(p.BlackPlayer)
       /\ p.WhitePoints \in ByeAwards
    \/ /\ IsPlayerSide(p.BlackPlayer)
       /\ ~IsPlayerSide(p.WhitePlayer)
       /\ p.BlackPoints \in ByeAwards

\* the tournaments the two legs have returned
LegTournaments ==
    {tViaApi[i] : i \in 1..Len(tViaApi)} \cup {tViaWeb[i] : i \in 1..Len(tViaWeb)}

\* C16: every pairing with IsByePairing, of the website parser or of the
\* round-1 predictor, has exactly one populated player side, and the points
\* awarded to that side are 0.5 or 1.0.
C16_ByeShape ==
    \A t \in LegTournaments :
        \A i \in 1..Len(t.CurrentPairings) :
            t.CurrentPairings[i].IsByePairing => ByeWellFormed(t.CurrentPairings[i])

\* both pages were fetched and the website leg has parsed them
PagesParsed ==
    pc.web = "done" /\ entriesRes.err = <<>> /\ pairingsRes.err = <<>>

\* a row that is neither too short nor the header row
WellFormedRow(row) == row.cells >= 5 /\ row.board \notin {"Bd", "BD", "bd"}
WellFormedEntry(row) == row.cells >= 4

NumberOr0(w) == IF AtoiWord(w) # <<>> THEN AtoiWord(w)[1] ELSE 0

\* the pairing p is the one of the row: board, results, pairing numbers
RowMatches(p, row) ==
    /\ p.BoardNumber = NumberOr0(row.board)
    /\ p.ResultCode = row.whiteRes \o "-" \o row.blackRes
    /\ p.WhitePlayer.PairingNumber
         = (IF Len(CellFields(row.white)) > 1 THEN NumberOr0(row.white.pre[1]) ELSE 0)
    /\ p.BlackPlayer.PairingNumber
         = (IF Len(CellFields(row.black)) > 1 THEN NumberOr0(row.black.pre[1]) ELSE 0)

\* the document has one heading and one table
SingleTable(doc) ==
    /\ Cardinality({i \in 1..Len(doc) : doc[i].tag = "table"}) = 1
    /\ Cardinality({i \in 1..Len(doc) : doc[i].tag \in {"h1", "h2", "h3"}}) = 1

TableRows(doc) == doc[CHOOSE i \in 1..Len(doc) : doc[i].tag = "table"].rows

\* C24: a malformed row (too few cells, or the header row) is skipped
\* without error and without stopping the scan: every well-formed row of
\* the table, before or after it, yields its player or pairing, in
\* document order.
C24_MalformedRowSkipped ==
    PagesParsed =>
        /\ webErr = <<>>
        /\ LET good == SelectSeq(entriesRes.doc, WellFormedEntry)
               ps   == tViaWeb[1].Players
           IN  /\ Len(ps) = Len(good)
               /\ \A i \in 1..Len(good) : ps[i].PairingNumber = NumberOr0(good[i].num)
        /\ SingleTable(pairingsRes.doc) =>
              LET good == SelectSeq(TableRows(pairingsRes.doc), WellFormedRow)
                  ps   == tViaWeb[1].CurrentPairings
              IN  /\ Len(ps) = Len(good)
                  /\ \A i \in 1..Len(good) : RowMatches(ps[i], good[i])

\* a short row and a second header row between two games, a short row
\* between two entries: both games and both entries are there
C24_Witness ==
    /\ PagesParsed
    /\ pairingsRes.doc = PairingsDocShort
    /\ entriesRes.doc = EntriesDocShort
    /\ Len(tViaWeb[1].CurrentPairings) = 2
    /\ tViaWeb[1].CurrentPairings[2].BoardNumber = 2
    /\ Len(tViaWeb[1].Players) = 2
    /\ tViaWeb[1].Players[2].PairingNumber = 2

\* the number of well-formed rows in the tables of the document
RECURSIVE GoodRows(_, _)
GoodRows(doc, i) ==
    IF i > Len(doc) THEN 0
    ELSE (IF doc[i].tag = "table" THEN Len(SelectSeq(doc[i].rows, WellFormedRow)) ELSE 0)
         + GoodRows(doc, i + 1)

IsHeading(n) == n.tag \in {"h1", "h2", "h3"}

\* heading i has a table of its own: one before the next heading
OwnTable(doc, i) ==
    /\ IsHeading(doc[i])
    /\ \E j \in (i + 1)..Len(doc) :
          doc[j].tag = "table" /\ \A k \in (i + 1)..(j - 1) : ~IsHeading(doc[k])

\* C28: every pairings table contributes its rows to the tournament at
\* most once and under a single section name, whatever the layout of the
\* headings: the tournament has no more pairings than the tables have
\* well-formed rows, and each pairing carries the section of a heading
\* that has a table of its own.
C28_TableParsedOnce ==
    (pc.web = "done" /\ pairingsRes.err = <<>> /\ tViaWeb # <<>>) =>
        LET doc == pairingsRes.doc
            ps  == tViaWeb[1].CurrentPairings
        IN  /\ Len(ps) <= GoodRows(doc, 1)
            /\ \A k \in 1..Len(ps) :
                  \E i \in 1..Len(doc) : OwnTable(doc, i) /\ doc[i].section = ps[k].Section

\* the cells whose parenthesized fragment has "unr." in place of the rating
UnratedCells(doc) ==
    {c \in DocCells(doc) : c.paren /\ Len(c.inside) >= 1 /\ c.inside[1] = "unr."}

\* the same cell with rating 0
ZeroRated(c) == [c EXCEPT !.inside[1] = "0"]

\* a parsed player without what the row's result cell adds
WithoutResult(pl) == [pl EXCEPT !.CurrentScoreAG = 0, !.emptyResult = FALSE]

\* C25: a pairings cell that marks the player as unrated ("unr." in place
\* of the rating) is parsed into a player that is marked unrated and not
\* given the rating zero: its parse result differs from that of the same
\* cell with rating 0.
C25_UnratedNotZero ==
    WebParsed =>
        \A c \in UnratedCells(pairingsRes.doc) :
            \A pl \in PairingPlayers(tViaWeb[1]) :
                pl.PairingNumber = NumberOr0(c.pre[1]) =>
                    WithoutResult(pl) # WithoutResult(parsePlayerRef(ZeroRated(c)))

\* ======================================================= claims: the views
\* the section names s are in the priority order of SectionSorter
InPriorityOrder(s) == \A i \in 1..(Len(s) - 1) : SectionLess(s[i], s[i + 1])

\* C17: the pairings view and the standings view both emit the sections of a
\* tournament in the priority order of SectionSorter, and so in the same
\* order in both views.
C17_ViewsSectionOrder ==
    /\ pairingsOut # <<>> => InPriorityOrder(pairingsOut[1])
    /\ standingsOut # <<>> => InPriorityOrder(standingsOut[1])
    /\ (pairingsOut # <<>> /\ standingsOut # <<>>
           /\ ret.t[1].CurrentPairings # <<>>) => pairingsOut = standingsOut

\* ============================================ claims: the errgroup calls
GroupDone == gPc = "done"

\* the member the API reports with rating 0
UnratedAnswer(a) == a.ok /\ a.rating = 0

\* C18: GetRatingEstimate returns an error and no estimate whenever the
\* player or at least one opponent is unrated (rating reported as 0),
\* however many other opponents are rated and in whatever order the
\* lookups finish.
C18_UnratedIsError ==
    (/\ GroupDone
     /\ gKind = KindEstimate
     /\ \E i \in 1..NumWorkers : UnratedAnswer(gWorld.answers[i]))
    => (gRet.err # <<>> /\ gRet.val = <<>>)

\* an unrated last opponent, the player and the other opponent rated and
\* fetched before the call returned its error
C18_Witness ==
    /\ GroupDone
    /\ gKind = KindEstimate
    /\ NumWorkers = 3
    /\ UnratedAnswer(gWorld.answers[3])
    /\ \A i \in 1..2 : gWorld.answers[i].ok /\ gWorld.answers[i].rating # 0
    /\ gFailOrder = <<3>>
    /\ gResults[1] # <<>> /\ gResults[2] # <<>>
    /\ gRet.err = Error("player is unrated", 3)
    /\ gRet.val = <<>>

\* ctx.Err() of a cancelled context
ErrCanceled == Error("context canceled", 0)

\* C19: when the caller's context is cancelled while fetches of an
\* aggregate call are in flight, the call returns the cancellation error
\* (the fetches observe the cancellation instead of completing naturally).
C19_CancelReturnsError ==
    (GroupDone /\ gCancelInFlight) => gRet.err = ErrCanceled

\* the error worker i returns
WorkerError(i) == WorkerRun(gKind, i, gWorld.answers[i]).err

\* every worker's result is in the value the call returns
ResultsPresent ==
    /\ gRet.val # <<>>
    /\ CASE gKind = KindEstimate ->
              /\ gRet.val[1].myOldRating = gWorld.answers[1].rating
              /\ Len(gRet.val[1].opponentRatings) = NumWorkers - 1
              /\ \A i \in 2..NumWorkers :
                    gRet.val[1].opponentRatings[i - 1] = gWorld.answers[i].rating
         [] gKind = KindPlayer ->
              /\ parseRatingWithProvisionalGames(gRet.val[1].RegRating).base
                    = gWorld.answers[1].rating
              /\ gRet.val[1].TotalEvents = gWorld.answers[2].items
         [] gKind = KindCrossTables ->
              \A i \in 1..NumWorkers :
                  MapLookup(gRet.val[1], gWorld.answers[i].id)
                    = PlayerSections(gWorld.answers[i].sections)

\* C20: an errgroup-based aggregate call returns only after every launched
\* worker has returned; if a worker failed it returns the error of the
\* first worker that failed and no value, whatever its siblings fetched;
\* if none failed, every worker's result is present.
C20_FirstErrorAfterAll ==
    GroupDone =>
        /\ \A i \in 1..NumWorkers : gWorker[i] = "done"
        /\ gFailOrder # <<>> =>
              (gRet.err = WorkerError(gFailOrder[1]) /\ gRet.val = <<>>)
        /\ gFailOrder = <<>> => (gRet.err = <<>> /\ ResultsPresent)

\* two workers failed with different errors, the later-launched one first,
\* and a sibling had fetched its member
C20_Witness ==
    /\ GroupDone
    /\ gKind = KindEstimate
    /\ gFailOrder = <<3, 2>>
    /\ WorkerError(3) # WorkerError(2)
    /\ gResults[1] # <<>>
    /\ gRet.err = WorkerError(3)
    /\ gRet.val = <<>>

\* a call without failure: the cross tables of two events, one of them
\* without a section of the player
C20_WitnessAllPresent ==
    /\ GroupDone
    /\ gKind = KindCrossTables
    /\ NumWorkers = 2
    /\ gFailOrder = <<>>
    /\ DOMAIN gRet.val[1] = {1}
    /\ ResultsPresent

\* ========================================== claims: the rating estimator
\* the estimates that have been computed
Estimates == {e[1] : e \in {x \in {estStd, estDual} : x # <<>>}}

\* a provisional-branch input: every opponent at the player's own old
\* rating and a score of exactly half the number of games
BalancedProvisional ==
    /\ estArgs.priorGames <= 8
    /\ \A i \in 1..Len(estArgs.opponentRatings) :
          estArgs.opponentRatings[i] = estArgs.myOldRating
    /\ estArgs.score = Len(estArgs.opponentRatings)

\* two ratings equal within 1e-6
WithinTolerance(a, b) == Abs(a - b) <= RatingScale \div 1000000

AboveExpected ==
    /\ estStd # <<>>
    /\ estDual # <<>>
    /\ estArgs.myOldRating > 2200
    /\ 5000 * estArgs.score
         > SumExpected(estArgs.myOldRating, estArgs.opponentRatings)

\* C22 as stated: for every input with oldRating > 2200 and a score above
\* the expected score, the estimate with the dual-rated adjustment is
\* strictly lower than the estimate without it.
C22_DualLower == AboveExpected => estDual[1] < estStd[1]

\* C22 amended: the same for every such input of the standard branch
\* (priorGames > 8).
C22_DualLowerStandardBranch ==
    (AboveExpected /\ estArgs.priorGames > 8) => estDual[1] < estStd[1]

\* old 2300, 100 prior games, four opponents at 2300, score 4.0
C22_Witness ==
    /\ estArgs = [myOldRating |-> 2300, priorGames |-> 100, score |-> 8,
                  opponentRatings |-> <<2300, 2300, 2300, 2300>>]
    /\ AboveExpected
    /\ estStd[1] > 2300 * RatingScale
    /\ estDual[1] > 2300 * RatingScale
    /\ estDual[1] < estStd[1]

\* the numerator of K by band: 800, 800 * (6.5 - 0.0025 * old), 200
BandNumerator(old, dual) ==
    IF ~dual \/ old <= 2200 THEN 800
    ELSE IF old < 2500 THEN 5200 - 2 * old
    ELSE 200

\* K = numerator / (N0 + m), N0 in tenths
IsBandValue(c, numerator) == c.K.num * (c.N0 + 10 * c.m) = 10 * numerator * c.K.den

\* C23: KFactor selects its formula by band: 800/(N0+m) when dual is false
\* or old <= 2200, 800*(6.5-0.0025*old)/(N0+m) when dual and
\* 2200 < old < 2500, 200/(N0+m) when dual and old >= 2500; the dual-rated
\* K never exceeds the standard K.
C23_KFactorBands ==
    (kCall # <<>> /\ kCall[1].N0 + 10 * kCall[1].m > 0) =>
        /\ IsBandValue(kCall[1], BandNumerator(kCall[1].myOldRating,
                                               kCall[1].dualRatedOTBR))
        /\ kCall[1].K.num * 10 * (kCall[1].N0 + 10 * kCall[1].m)
             <= 10 * 800 * kCall[1].K.den * 10

\* KFactor(2550, N0 = 20, m = 4, dual) = 200/24
C23_Witness ==
    /\ kCall # <<>>
    /\ kCall[1].myOldRating = 2550 /\ kCall[1].N0 = 200 /\ kCall[1].m = 4
    /\ kCall[1].dualRatedOTBR
    /\ kCall[1].K.num * 24 = 200 * kCall[1].K.den

\* KFactor(2000, N0 = 20, m = 4, standard) = 800/24
C23_WitnessStandard ==
    /\ kCall # <<>>
    /\ kCall[1].myOldRating = 2000 /\ kCall[1].N0 = 200 /\ kCall[1].m = 4
    /\ ~kCall[1].dualRatedOTBR
    /\ kCall[1].K.num * 24 = 800 * kCall[1].K.den

\* KFactor in the middle band: 800 * (6.5 - 0.0025 * 2300) / (N0 + m)
C23_WitnessMiddle ==
    /\ kCall # <<>>
    /\ kCall[1].myOldRating = 2300 /\ kCall[1].N0 = 200 /\ kCall[1].m = 4
    /\ kCall[1].dualRatedOTBR
    /\ kCall[1].K.num * 24 = 600 * kCall[1].K.den

\* Worker i is between mu.Lock() and mu.Unlock().
InCritical(i) == gWorker[i] \in {"locked", "written"}

\* C27: in fetchRecentPlayerCrossTables every write to the result map
\* happens while the writing worker holds the mutex, so no two workers are
\* at the write at the same time in any interleaving, and the caller has
\* the map only after every worker of the call has completed or failed.
C27_WritesUnderMutex ==
    /\ \A i \in 1..NumWorkers : InCritical(i) => mu = i
    /\ Cardinality({i \in 1..NumWorkers : InCritical(i)}) <= 1
    /\ gPc = "done" =>
          /\ \A i \in 1..NumWorkers : gWorker[i] = "done"
          /\ mu = 0
          /\ gRet.err = <<>> => gRet.val = <<gResults>>

\* C27 witness: one worker has written its entry and still holds the
\* mutex while another one has its xts ready and waits at mu.Lock().
C27_Witness ==
    \E i, j \in 1..NumWorkers :
        /\ gWorker[i] = "written"
        /\ gWorker[j] = "fetched"
        /\ i \in DOMAIN gResults

\* C27 witness: the call has returned a map with the entries of two workers.
C27_WitnessReturned ==
    /\ gPc = "done"
    /\ gRet.err = <<>>
    /\ Cardinality(DOMAIN gResults) = 2

\* ================================================== claims: the predictor
\* The pairings of one section, in the order of the output.
SecOut(name) == SelectSeq(pairings, LAMBDA p : p.Section = name)
SecBoards(name) == SelectSeq(SecOut(name), LAMBDA p : ~p.IsByePairing)

\* Ranks 1..n of a section: the entrants without a requested round-1 bye,
\* by rating descending, less the odd-bye player.
SecRemaining(name) == RemainingPlayers(SectionPlayers(entries, name))

RankedPool(name) ==
    LET s == SortByRating(SecRemaining(name))
    IN  IF Len(s) % 2 = 1 THEN SubSeq(s, 1, Len(s) - 1) ELSE s

Rating(e) == strRatingToInt(e.PrimaryRating)

BoardIds(p) == {p.WhitePlayer.UscfID, p.BlackPlayer.UscfID}

\* C6: in every section with an even pool of n ranked players, for every
\* i in 1..n/2 exactly one board pairs rank i with rank n/2+i, and the
\* section has no other boards; the ranks are in rating-descending order.
C6_TopHalfVsBottomHalf ==
    ran => \A name \in SectionKeys(entries) :
        LET pool == RankedPool(name)
            n    == Len(pool)
            b    == SecBoards(name)
        IN  /\ Len(b) = n \div 2
            /\ \A i \in 1..(n - 1) : Rating(pool[i]) >= Rating(pool[i + 1])
            /\ \A i \in 1..(n \div 2) :
                 Cardinality({j \in 1..Len(b) :
                     BoardIds(b[j]) = {pool[i].UscfID, pool[(n \div 2) + i].UscfID}}) = 1

\* C6 witness: a section with three boards whose pool holds two ratings.
C6_Witness ==
    /\ ran
    /\ \E name \in SectionKeys(entries) :
         /\ Len(SecBoards(name)) = 3
         /\ \E i, j \in 1..Len(RankedPool(name)) :
              Rating(RankedPool(name)[i]) # Rating(RankedPool(name)[j])

\* C7 as stated: in every section the first pairing gives white to the
\* bottom-half player, the second to the top-half player, and so on
\* alternately.
C7_FirstWhiteIsBottomHalf ==
    ran => \A name \in SectionKeys(entries) :
        LET pool == RankedPool(name)
            n    == Len(pool)
            b    == SecBoards(name)
        IN  \A j \in 1..Len(b) :
              IF j % 2 = 1
              THEN b[j].WhitePlayer.UscfID = pool[(n \div 2) + j].UscfID
              ELSE b[j].WhitePlayer.UscfID = pool[j].UscfID

\* C7 amended: in every section the first pairing gives white to the
\* top-half player (the top seed has white), the second pairing gives white
\* to the bottom-half player, and the side alternates on every further
\* pairing; the alternation restarts in each section.
C7_FirstWhiteIsTopHalf ==
    ran => \A name \in SectionKeys(entries) :
        LET pool == RankedPool(name)
            n    == Len(pool)
            b    == SecBoards(name)
        IN  \A j \in 1..Len(b) :
              IF j % 2 = 1
              THEN /\ b[j].WhitePlayer.UscfID = pool[j].UscfID
                   /\ b[j].BlackPlayer.UscfID = pool[(n \div 2) + j].UscfID
              ELSE /\ b[j].WhitePlayer.UscfID = pool[(n \div 2) + j].UscfID
                   /\ b[j].BlackPlayer.UscfID = pool[j].UscfID

\* C7 witness: two sections have boards, one of them at least two.
C7_Witness ==
    /\ ran
    /\ \E s1, s2 \in SectionKeys(entries) :
         s1 # s2 /\ Len(SecBoards(s1)) >= 2 /\ Len(SecBoards(s2)) >= 1

\* The bye pairings of a section that award pts half points.
SecByes(name, pts) ==
    SelectSeq(SecOut(name), LAMBDA p : p.IsByePairing /\ p.WhitePoints = <<pts>>)

\* C8: in every section each entrant who requested a round-1 bye has one
\* bye pairing worth 0.5 and is on no board; when the number of the others
\* is odd exactly one of them, of the lowest rating, has a bye worth 1.0,
\* and when it is even nobody has; the others fill n \div 2 boards.
C8_Byes ==
    ran => \A name \in SectionKeys(entries) :
        LET ps   == SectionPlayers(entries, name)
            rem  == SecRemaining(name)
            half == SecByes(name, HalfPointBye)
            full == SecByes(name, FullPointBye)
            b    == SecBoards(name)
        IN  /\ \A i \in 1..Len(ps) :
                 round1ByeRequested(ps[i].ByeRequests) =>
                   /\ Cardinality({j \in 1..Len(half) :
                          half[j].WhitePlayer.UscfID = ps[i].UscfID}) = 1
                   /\ \A j \in 1..Len(b) : ps[i].UscfID \notin BoardIds(b[j])
                   /\ \A j \in 1..Len(full) : full[j].WhitePlayer.UscfID # ps[i].UscfID
            /\ Len(half) = Len(ps) - Len(rem)
            /\ Len(b) = Len(rem) \div 2
            /\ Len(rem) % 2 = 0 => Len(full) = 0
            /\ Len(rem) % 2 = 1 =>
                 /\ Len(full) = 1
                 /\ \E i \in 1..Len(rem) :
                      /\ rem[i].UscfID = full[1].WhitePlayer.UscfID
                      /\ \A k \in 1..Len(rem) : Rating(rem[i]) <= Rating(rem[k])
                 /\ \A j \in 1..Len(b) : full[1].WhitePlayer.UscfID \notin BoardIds(b[j])

\* C8 witness: a section of five entrants without a bye request and of two
\* ratings, and another section with a requested bye.
C8_Witness ==
    /\ ran
    /\ \E s1, s2 \in SectionKeys(entries) :
         /\ Len(SectionPlayers(entries, s1)) = 5
         /\ Len(SecRemaining(s1)) = 5
         /\ \E i, j \in 1..5 : Rating(SecRemaining(s1)[i]) # Rating(SecRemaining(s1)[j])
         /\ Len(SecByes(s1, FullPointBye)) = 1
         /\ Len(SecByes(s2, HalfPointBye)) = 1

\* C9: with k non-bye pairings in the output their board numbers are
\* exactly 1..k, each once; the boards of a section that sorts earlier are
\* all smaller than the boards of a section that sorts later, the sections
\* being sorted by SectionSorter; inside a section the boards increase in
\* pairing order; every bye has board 0.
C9_BoardNumbers ==
    ran =>
        LET nb == SelectSeq(pairings, LAMBDA p : ~p.IsByePairing)
            k  == Len(nb)
        IN  /\ {nb[i].BoardNumber : i \in 1..k} = 1..k
            /\ \A i \in 1..Len(pairings) :
                 pairings[i].IsByePairing => pairings[i].BoardNumber = 0
            /\ \A i \in 1..(Len(sectionNames) - 1) :
                 ~SectionLess(sectionNames[i + 1], sectionNames[i])
            /\ \A i, j \in 1..Len(sectionNames) :
                 i < j =>
                   \A x \in 1..Len(SecBoards(sectionNames[i])),
                      y \in 1..Len(SecBoards(sectionNames[j])) :
                        SecBoards(sectionNames[i])[x].BoardNumber
                          < SecBoards(sectionNames[j])[y].BoardNumber
            /\ \A name \in SectionKeys(entries) :
                 \A x \in 1..(Len(SecBoards(name)) - 1) :
                   SecBoards(name)[x].BoardNumber < SecBoards(name)[x + 1].BoardNumber

\* C9 witness: two sections with boards and a bye in the output.
C9_Witness ==
    /\ ran
    /\ Len(sectionNames) = 2
    /\ Len(SecBoards(sectionNames[1])) >= 1
    /\ Len(SecBoards(sectionNames[2])) >= 1
    /\ \E i \in 1..Len(pairings) : pairings[i].IsByePairing

\* The seeding of a section read off the output: the top-half players of
\* its boards in board order (white on the odd boards, black on the even
\* ones), then the bottom-half players, then the player of the odd bye.
SeedList(name) ==
    LET b == SecBoards(name)
    IN  [i \in 1..Len(b) |->
            IF i % 2 = 1 THEN b[i].WhitePlayer ELSE b[i].BlackPlayer]
        \o [i \in 1..Len(b) |->
               IF i % 2 = 1 THEN b[i].BlackPlayer ELSE b[i].WhitePlayer]
        \o [i \in 1..Len(SecByes(name, FullPointBye)) |->
               SecByes(name, FullPointBye)[i].WhitePlayer]

\* C26: the pool of a section is ordered by rating descending with ties
\* broken by entry order, for a pool of any size: of two entrants with
\* equal rating, the one that comes first in the input (the smaller
\* UscfID here) is seeded higher.
C26_TiesKeepEntryOrder ==
    ran => \A name \in SectionKeys(entries) :
        LET seeds == SeedList(name)
        IN  \A i, j \in 1..Len(seeds) :
              (i < j /\ seeds[i].PrimaryRating = seeds[j].PrimaryRating)
                => seeds[i].UscfID < seeds[j].UscfID

\* The places of the output taken by the entrant with the given id: white
\* or black on a board, or the player of a bye.
Places(id) ==
    {<<j, c>> \in (1..Len(pairings)) \X {white, black} :
        IF c = white THEN pairings[j].WhitePlayer.UscfID = id
        ELSE ~pairings[j].IsByePairing /\ pairings[j].BlackPlayer.UscfID = id}

\* C30: the predictor conserves entrants: each entry has exactly one place
\* in the output, as white, as black or as the player of a bye, in a
\* pairing of its own section, and the output has no other places.
C30_EntrantsConserved ==
    ran =>
      /\ \A i \in 1..Len(entries) :
            /\ Cardinality(Places(entries[i].UscfID)) = 1
            /\ \A pl \in Places(entries[i].UscfID) :
                  pairings[pl[1]].Section = entries[i].SectionName
      /\ Cardinality({j \in 1..Len(pairings) : pairings[j].IsByePairing})
           + 2 * Cardinality({j \in 1..Len(pairings) : ~pairings[j].IsByePairing})
           = Len(entries)

\* C30 witness: a section whose pool is odd and fills at least two boards,
\* so that both removals and the truncation act, next to a requested bye.
C30_Witness ==
    /\ ran
    /\ \E name \in SectionKeys(entries) :
         /\ Len(SecRemaining(name)) % 2 = 1
         /\ Len(SecBoards(name)) >= 2
         /\ Len(SecByes(name, FullPointBye)) = 1
    /\ \E i \in 1..Len(entries) : round1ByeRequested(entries[i].ByeRequests)

\* C29: SectionSorter.Less is a strict weak ordering on the section names
\* of the entry list (irreflexive, asymmetric, transitive), also when
\* numeric U-sections are mixed with a U-prefixed name that is not
\* numeric, and so the sorted section order is the same whatever the order
\* in which the names were collected.
C29_LessIsStrictWeakOrder ==
    ran =>
      LET S == SectionKeys(entries)
      IN  /\ \A a \in S : ~SectionLess(a, a)
          /\ \A a, b \in S : SectionLess(a, b) => ~SectionLess(b, a)
          /\ \A a, b, c \in S :
                (SectionLess(a, b) /\ SectionLess(b, c)) => SectionLess(a, c)
          /\ \A p \in MapOrders(S) : SortSections(p) = sectionNames

\* C10: two invocations of predictRound1Pairings on the same entry list
\* return the same sequence of pairings: once it has returned for entries,
\* a further invocation returns what the last one returned.
C10_Deterministic == [][ran => pairings' = pairings]_vars

====
